---- MODULE Spec2Model ----
(***************************************************************************)
(* Kafka sidecar health evaluator (pkg/sidecar/health): the liveness and   *)
(* readiness evaluations of a Checker against an administrative client.    *)
(*                                                                         *)
(* One evaluation is a sequence of steps, one per client call: the client  *)
(* factory, then up to three Metadata calls and one DescribeBrokerLogDirs  *)
(* call.  The deferred cleanup runs in the step that returns.              *)
(***************************************************************************)
EXTENDS Integers, Sequences, FiniteSets, TLC

VARIABLES
    brokerID,   \* Checker.brokerID, fixed at construction
    cluster,    \* what the administrative client answers from:
                \*   [Metadata |-> kadm.Metadata, LogDirs |-> kadm.DescribedLogDirs]
    evals,      \* slot -> the evaluation running in it (see EvalInit)
    clients,    \* clients[i]: how often the cleanup of the i-th client was invoked
    runs,       \* evaluations started so far
    out,        \* result of the last direct call of a check function
    checker,    \* the other fields of the Checker: bootstrapServers,
                \*   checkTimeout, saslConfig, clientFactory
    ctx,        \* slot -> state of the context the evaluation was given
                \*   (r.Context() of a handler): "active" or "canceled"
    env,        \* the process environment: variable name -> value, "" if unset
    config,     \* types.Config and the error Initialize returned
    cgroup,     \* the cgroup directory the memory reader reads: its version
                \*   and its usage, limit and statistics files
    scrapes,    \* what the collector sent on each scrape so far, in order
    server,     \* the HTTP server and the process around it (see NoServer)
    history     \* the cluster metadata states there have been, where followed

vars == <<brokerID, cluster, evals, clients, runs, out, checker, ctx, env, config,
         cgroup, scrapes, server, history>>

----------------------------------------------------------------------------
(* Bounds of the model.                                                    *)

MaxTopics == 2
MaxTotalParts == 2
MaxDirs == 2
MaxPlacements == 2
MaxRuns == 2

----------------------------------------------------------------------------
(* Values.                                                                 *)

Nodes == {0, 1, 2}

Slots == {1}

\* the nil error of Go; every other error is modelled by its text
NilErr == "<nil>"

\* errors a client call can return (network, timeout, protocol)
CallErrs == {"context deadline exceeded", "connection refused"}

\* errors of kgo.NewClient, as defaultClientFactory wraps them
FactoryErrs == {"failed to create kafka client: no seed brokers",
                "failed to create kafka client: invalid seed broker"}

StatusOK == 200
StatusServiceUnavailable == 503

SeqsUpTo(S, n) == UNION {[1..k -> S] : k \in 0..n}

\* kadm.PartitionDetail: the replica list and the ISR list
PartitionDetails ==
    [Replicas : {<<2, 0>>, <<1, 2>>}, ISR : {<<0, 2>>, <<2, 1>>}]

\* kadm.TopicDetails with at most nt topics of at most np partitions each
TopicLists(nt, np) ==
    SeqsUpTo([Partitions : SeqsUpTo(PartitionDetails, np)], nt)

\* kadm.DescribedLogDirs with at most nd directories of at most np placements;
\* Err is the directory's error, Parts the IsFuture flag of each placement
LogDirLists(nd, np) ==
    SeqsUpTo([Err : {NilErr, "kafka storage error"},
              Parts : SeqsUpTo(BOOLEAN, np)], nd)

BrokerLists == {<<>>, <<0>>, <<2, 1>>, <<0, 1, 2>>}

Controllers == {-1} \cup Nodes

----------------------------------------------------------------------------
(* The check functions of health.go.  callErr is what the client call      *)
(* returned as its error; a check returns [val, err].                      *)

\* for _, broker := range metadata.Brokers { if broker.NodeID == id { return true } }
RECURSIVE BrokerListed(_, _)
BrokerListed(brokers, id) ==
    IF brokers = <<>> THEN FALSE
    ELSE IF Head(brokers) = id THEN TRUE
    ELSE BrokerListed(Tail(brokers), id)

BrokerInMetadata(md, callErr) ==
    IF callErr # NilErr
    THEN [val |-> FALSE, err |-> "failed to fetch metadata: " \o callErr]
    ELSE [val |-> BrokerListed(md.Brokers, brokerID), err |-> NilErr]

\* faulty variant: controller 0 is taken for "none elected"
ControllerElected_Positive(md, callErr) ==
    IF callErr # NilErr
    THEN [val |-> FALSE, err |-> "failed to fetch metadata: " \o callErr]
    ELSE [val |-> md.Controller > 0, err |-> NilErr]

ControllerElected(md, callErr) ==
    IF callErr # NilErr
    THEN [val |-> FALSE, err |-> "failed to fetch metadata: " \o callErr]
    ELSE [val |-> md.Controller >= 0, err |-> NilErr]

\* the two inner loops over partition.Replicas and partition.ISR
RECURSIVE ListHas(_, _)
ListHas(ids, id) ==
    IF ids = <<>> THEN FALSE
    ELSE IF Head(ids) = id THEN TRUE
    ELSE ListHas(Tail(ids), id)

\* the body of the partition loop: 1 if the partition adds to underReplicated
PartitionUnderReplicated(partition, id) ==
    IF ~ListHas(partition.Replicas, id) THEN 0
    ELSE IF ~ListHas(partition.ISR, id) THEN 1
    ELSE 0

RECURSIVE CountPartitions(_, _)
CountPartitions(partitions, id) ==
    IF partitions = <<>> THEN 0
    ELSE PartitionUnderReplicated(Head(partitions), id)
         + CountPartitions(Tail(partitions), id)

\* faulty variant: counts the topics that have an under-replicated partition
RECURSIVE CountTopics_PerTopic(_, _)
CountTopics_PerTopic(topics, id) ==
    IF topics = <<>> THEN 0
    ELSE (IF CountPartitions(Head(topics).Partitions, id) > 0 THEN 1 ELSE 0)
         + CountTopics_PerTopic(Tail(topics), id)

RECURSIVE CountTopics(_, _)
CountTopics(topics, id) ==
    IF topics = <<>> THEN 0
    ELSE CountPartitions(Head(topics).Partitions, id)
         + CountTopics(Tail(topics), id)

UnderReplicatedPartitions(md, callErr) ==
    IF callErr # NilErr
    THEN [val |-> -1, err |-> "failed to fetch metadata: " \o callErr]
    ELSE [val |-> CountTopics(md.Topics, brokerID), err |-> NilErr]

\* kadm.DescribedLogDirs.Error: the first directory error, if any
RECURSIVE LogDirsError(_)
LogDirsError(logDirs) ==
    IF logDirs = <<>> THEN NilErr
    ELSE IF Head(logDirs).Err # NilErr THEN Head(logDirs).Err
    ELSE LogDirsError(Tail(logDirs))

RECURSIVE AnyFuture(_)
AnyFuture(parts) ==
    IF parts = <<>> THEN FALSE
    ELSE Head(parts) \/ AnyFuture(Tail(parts))

\* logDirs.EachPartition(func(p) { if p.IsFuture { foundFuture = true } })
RECURSIVE FoundFuture(_)
FoundFuture(logDirs) ==
    IF logDirs = <<>> THEN FALSE
    ELSE AnyFuture(Head(logDirs).Parts) \/ FoundFuture(Tail(logDirs))

\* faulty variant: the directory errors are not looked at
LogDirsHealthy_IgnoreDirErr(logDirs, callErr) ==
    IF callErr # NilErr
    THEN [val |-> FALSE, err |-> "failed to describe log dirs: " \o callErr]
    ELSE [val |-> ~FoundFuture(logDirs), err |-> NilErr]

\* faulty variant: a failed DescribeBrokerLogDirs call is reported as "unhealthy"
LogDirsHealthy_SwallowErr(logDirs, callErr) ==
    IF callErr # NilErr THEN [val |-> FALSE, err |-> NilErr]
    ELSE IF LogDirsError(logDirs) # NilErr THEN [val |-> FALSE, err |-> NilErr]
    ELSE [val |-> ~FoundFuture(logDirs), err |-> NilErr]

LogDirsHealthy(logDirs, callErr) ==
    IF callErr # NilErr
    THEN [val |-> FALSE, err |-> "failed to describe log dirs: " \o callErr]
    ELSE IF LogDirsError(logDirs) # NilErr THEN [val |-> FALSE, err |-> NilErr]
    ELSE [val |-> ~FoundFuture(logDirs), err |-> NilErr]

----------------------------------------------------------------------------
(* One evaluation.  pc is the next check to run; log lists, in order, the  *)
(* factory call, the client calls (with the client they were made on) and  *)
(* the cleanup, each with the error it returned; code and resp are what a  *)
(* handler wrote, result what a Check function returned.                   *)

EvalInit ==
    [op |-> "none", pc |-> "idle", adm |-> 0, log |-> <<>>, code |-> 0,
     resp |-> [Status |-> ""], result |-> [Healthy |-> FALSE, Message |-> ""]]

\* faulty variant: every check reconnects, calling on a client of its own
Call_Reconnect(ev, name, callErr) ==
    [ev EXCEPT !.log = @ \o <<[call |-> "clientFactory", client |-> ev.adm + 1,
                               err |-> NilErr],
                              [call |-> name, client |-> ev.adm + 1,
                               err |-> callErr]>>]

\* adm.Metadata / adm.DescribeBrokerLogDirs is called on the evaluation's client
Call(ev, name, callErr) ==
    [ev EXCEPT !.log = Append(@, [call |-> name, client |-> ev.adm,
                                  err |-> callErr])]

\* c.clientFactory() returned (client, cleanup, err); client is 0 for nil
Acquire(ev, op, client, err) ==
    [ev EXCEPT !.op = op, !.adm = client,
               !.log = Append(@, [call |-> "clientFactory", client |-> client,
                                  err |-> err])]

\* the function returns after `defer cleanup()`: the cleanup handle runs
Deferred(ev) ==
    [ev EXCEPT !.pc = "done",
               !.log = Append(@, [call |-> "cleanup", client |-> ev.adm,
                                  err |-> NilErr])]

\* web.ReturnResponseWithCode(w, response, code) / web.ReturnResponse(w, response)
Respond(ev, code, response) == [ev EXCEPT !.code = code, !.resp = response]

\* return CheckResult{Healthy: healthy, Message: message}
Result(ev, healthy, message) ==
    [ev EXCEPT !.result = [Healthy |-> healthy, Message |-> message]]

\* `json:"error,omitempty"`: the error field is written iff the text is not empty
ErrorFieldPresent(response) == response.ErrorMessage # ""

----------------------------------------------------------------------------
(* LivenessHandler, liveness.go                                            *)

LH_Factory(ev, client, err) ==
    LET response == [Status |-> "", BrokerID |-> brokerID,
                     BrokerFound |-> FALSE, ErrorMessage |-> ""]
        ev1 == Acquire(ev, "LivenessHandler", client, err)
    IN  IF err # NilErr
        THEN [Respond(ev1, StatusServiceUnavailable,
                      [response EXCEPT !.Status = "unhealthy",
                                       !.ErrorMessage = err])
                EXCEPT !.pc = "done"]
        ELSE [Respond(ev1, 0, response) EXCEPT !.pc = "check1"]

LH_Check1(ev, md, callErr) ==
    LET r == BrokerInMetadata(md, callErr)
        ev1 == Call(ev, "Metadata", callErr)
    IN  IF r.err # NilErr
        THEN Deferred(Respond(ev1, StatusServiceUnavailable,
                 [ev.resp EXCEPT !.Status = "unhealthy", !.ErrorMessage = r.err]))
        ELSE IF ~r.val
        THEN Deferred(Respond(ev1, StatusServiceUnavailable,
                 [ev.resp EXCEPT !.BrokerFound = r.val,
                                 !.Status = "unhealthy",
                                 !.ErrorMessage = "broker not found in cluster metadata"]))
        ELSE Deferred(Respond(ev1, StatusOK,
                 [ev.resp EXCEPT !.BrokerFound = r.val, !.Status = "healthy"]))

----------------------------------------------------------------------------
(* CheckLiveness, liveness.go                                              *)

CL_Factory(ev, client, err) ==
    LET ev1 == Acquire(ev, "CheckLiveness", client, err)
    IN  IF err # NilErr
        THEN [Result(ev1, FALSE, err) EXCEPT !.pc = "done"]
        ELSE [ev1 EXCEPT !.pc = "check1"]

\* faulty variant: liveness also requires an elected controller
CL_Check1_AlsoController(ev, md, callErr) ==
    LET r == BrokerInMetadata(md, callErr)
        ev1 == Call(ev, "Metadata", callErr)
    IN  IF r.err # NilErr THEN Deferred(Result(ev1, FALSE, r.err))
        ELSE IF ~r.val
        THEN Deferred(Result(ev1, FALSE, "broker not found in cluster metadata"))
        ELSE IF md.Controller < 0
        THEN Deferred(Result(ev1, FALSE, "no controller elected"))
        ELSE Deferred(Result(ev1, TRUE, ""))

CL_Check1(ev, md, callErr) ==
    LET r == BrokerInMetadata(md, callErr)
        ev1 == Call(ev, "Metadata", callErr)
    IN  IF r.err # NilErr THEN Deferred(Result(ev1, FALSE, r.err))
        ELSE IF ~r.val
        THEN Deferred(Result(ev1, FALSE, "broker not found in cluster metadata"))
        ELSE Deferred(Result(ev1, TRUE, ""))

----------------------------------------------------------------------------
(* ReadinessHandler                                                        *)

\* faulty variant: the failure is written with web.ReturnResponse, that is, with 200
RH_Unhealthy_OK(ev, response, cause) ==
    Deferred(Respond(ev, StatusOK,
                     [response EXCEPT !.Status = "unhealthy",
                                      !.ErrorMessage = cause]))

\* faulty variant: the failure paths return without running the cleanup
RH_Unhealthy_NoCleanup(ev, response, cause) ==
    [Respond(ev, StatusServiceUnavailable,
             [response EXCEPT !.Status = "unhealthy", !.ErrorMessage = cause])
       EXCEPT !.pc = "done"]

\* a 503 response with the given cause
RH_Unhealthy(ev, response, cause) ==
    Deferred(Respond(ev, StatusServiceUnavailable,
                     [response EXCEPT !.Status = "unhealthy",
                                      !.ErrorMessage = cause]))

\* faulty variant: the response starts out with every check taken as passed
RH_Factory_Optimistic(ev, client, err) ==
    LET response == [Status |-> "", BrokerID |-> brokerID,
                     BrokerRegistered |-> TRUE, ControllerElected |-> TRUE,
                     UnderReplicatedPartitions |-> 0, LogDirsHealthy |-> TRUE,
                     ErrorMessage |-> ""]
        ev1 == Acquire(ev, "ReadinessHandler", client, err)
    IN  IF err # NilErr
        THEN [Respond(ev1, StatusServiceUnavailable,
                      [response EXCEPT !.Status = "unhealthy",
                                       !.ErrorMessage = err])
                EXCEPT !.pc = "done"]
        ELSE [Respond(ev1, 0, response) EXCEPT !.pc = "check1"]

RH_Factory(ev, client, err) ==
    LET response == [Status |-> "", BrokerID |-> brokerID,
                     BrokerRegistered |-> FALSE, ControllerElected |-> FALSE,
                     UnderReplicatedPartitions |-> 0, LogDirsHealthy |-> FALSE,
                     ErrorMessage |-> ""]
        ev1 == Acquire(ev, "ReadinessHandler", client, err)
    IN  IF err # NilErr
        THEN [Respond(ev1, StatusServiceUnavailable,
                      [response EXCEPT !.Status = "unhealthy",
                                       !.ErrorMessage = err])
                EXCEPT !.pc = "done"]
        ELSE [Respond(ev1, 0, response) EXCEPT !.pc = "check1"]

\* faulty variant: /health/ready records the registration without requiring it
RH_Check1_NoRegistration(ev, md, callErr) ==
    LET r == BrokerInMetadata(md, callErr)
        ev1 == Call(ev, "Metadata", callErr)
        response == [ev.resp EXCEPT !.BrokerRegistered = r.val]
    IN  IF r.err # NilErr THEN RH_Unhealthy(ev1, ev.resp, r.err)
        ELSE [Respond(ev1, 0, response) EXCEPT !.pc = "check2"]

RH_Check1(ev, md, callErr) ==
    LET r == BrokerInMetadata(md, callErr)
        ev1 == Call(ev, "Metadata", callErr)
        response == [ev.resp EXCEPT !.BrokerRegistered = r.val]
    IN  IF r.err # NilErr THEN RH_Unhealthy(ev1, ev.resp, r.err)
        ELSE IF ~r.val
        THEN RH_Unhealthy(ev1, response, "broker not registered in cluster metadata")
        ELSE [Respond(ev1, 0, response) EXCEPT !.pc = "check2"]

RH_Check2(ev, md, callErr) ==
    LET r == ControllerElected(md, callErr)
        ev1 == Call(ev, "Metadata", callErr)
        response == [ev.resp EXCEPT !.ControllerElected = r.val]
    IN  IF r.err # NilErr THEN RH_Unhealthy(ev1, ev.resp, r.err)
        ELSE IF ~r.val THEN RH_Unhealthy(ev1, response, "no controller elected")
        ELSE [Respond(ev1, 0, response) EXCEPT !.pc = "check3"]

RH_Check3(ev, md, callErr) ==
    LET r == UnderReplicatedPartitions(md, callErr)
        ev1 == Call(ev, "Metadata", callErr)
        response == [ev.resp EXCEPT !.UnderReplicatedPartitions = r.val]
    IN  IF r.err # NilErr THEN RH_Unhealthy(ev1, ev.resp, r.err)
        ELSE IF r.val > 0
        THEN RH_Unhealthy(ev1, response, "broker has under-replicated partitions")
        ELSE [Respond(ev1, 0, response) EXCEPT !.pc = "check4"]

RH_Check4(ev, logDirs, callErr) ==
    LET r == LogDirsHealthy(logDirs, callErr)
        ev1 == Call(ev, "DescribeBrokerLogDirs", callErr)
        response == [ev.resp EXCEPT !.LogDirsHealthy = r.val]
    IN  IF r.err # NilErr THEN RH_Unhealthy(ev1, ev.resp, r.err)
        ELSE IF ~r.val
        THEN RH_Unhealthy(ev1, response,
                 "log directories unhealthy (future partitions detected)")
        ELSE Deferred(Respond(ev1, StatusOK, [response EXCEPT !.Status = "healthy"]))

----------------------------------------------------------------------------
(* CheckReadiness                                                          *)

CR_Factory(ev, client, err) ==
    LET ev1 == Acquire(ev, "CheckReadiness", client, err)
    IN  IF err # NilErr
        THEN [Result(ev1, FALSE, err) EXCEPT !.pc = "done"]
        ELSE [ev1 EXCEPT !.pc = "check1"]

\* faulty variant: the registration failure does not return
CR_Check1_NoReturn(ev, md, callErr) ==
    LET r == BrokerInMetadata(md, callErr)
        ev1 == Call(ev, "Metadata", callErr)
    IN  IF r.err # NilErr THEN Deferred(Result(ev1, FALSE, r.err))
        ELSE [ev1 EXCEPT !.pc = "check2"]

\* faulty variant: the controller check runs in the place of the registration check
CR_Check1_ControllerFirst(ev, md, callErr) ==
    LET r == ControllerElected(md, callErr)
        ev1 == Call(ev, "Metadata", callErr)
    IN  IF r.err # NilErr THEN Deferred(Result(ev1, FALSE, r.err))
        ELSE IF ~r.val THEN Deferred(Result(ev1, FALSE, "no controller elected"))
        ELSE [ev1 EXCEPT !.pc = "check2"]

CR_Check1(ev, md, callErr) ==
    LET r == BrokerInMetadata(md, callErr)
        ev1 == Call(ev, "Metadata", callErr)
    IN  IF r.err # NilErr THEN Deferred(Result(ev1, FALSE, r.err))
        ELSE IF ~r.val
        THEN Deferred(Result(ev1, FALSE, "broker not registered in cluster metadata"))
        ELSE [ev1 EXCEPT !.pc = "check2"]

CR_Check2(ev, md, callErr) ==
    LET r == ControllerElected(md, callErr)
        ev1 == Call(ev, "Metadata", callErr)
    IN  IF r.err # NilErr THEN Deferred(Result(ev1, FALSE, r.err))
        ELSE IF ~r.val THEN Deferred(Result(ev1, FALSE, "no controller elected"))
        ELSE [ev1 EXCEPT !.pc = "check3"]

CR_Check3(ev, md, callErr) ==
    LET r == UnderReplicatedPartitions(md, callErr)
        ev1 == Call(ev, "Metadata", callErr)
    IN  IF r.err # NilErr THEN Deferred(Result(ev1, FALSE, r.err))
        ELSE IF r.val > 0
        THEN Deferred(Result(ev1, FALSE, "broker has under-replicated partitions"))
        ELSE [ev1 EXCEPT !.pc = "check4"]

\* faulty variant: the answer of the log directory check is not looked at
CR_Check4_IgnoresAnswer(ev, logDirs, callErr) ==
    LET r == LogDirsHealthy(logDirs, callErr)
        ev1 == Call(ev, "DescribeBrokerLogDirs", callErr)
    IN  IF r.err # NilErr THEN Deferred(Result(ev1, FALSE, r.err))
        ELSE Deferred(Result(ev1, TRUE, ""))

CR_Check4(ev, logDirs, callErr) ==
    LET r == LogDirsHealthy(logDirs, callErr)
        ev1 == Call(ev, "DescribeBrokerLogDirs", callErr)
    IN  IF r.err # NilErr THEN Deferred(Result(ev1, FALSE, r.err))
        ELSE IF ~r.val THEN Deferred(Result(ev1, FALSE, "log directories unhealthy"))
        ELSE Deferred(Result(ev1, TRUE, ""))

----------------------------------------------------------------------------
(* The state machine: one action per evaluator, one disjunct per step.     *)

NoOut == [fn |-> "none"]

LowerLetters == "abcdefghijklmnopqrstuvwxyz"
UpperLetters == "ABCDEFGHIJKLMNOPQRSTUVWXYZ"

UpperChar(c) ==
    IF \E i \in 1..Len(LowerLetters) : SubSeq(LowerLetters, i, i) = c
    THEN LET i == CHOOSE j \in 1..Len(LowerLetters) : SubSeq(LowerLetters, j, j) = c
         IN  SubSeq(UpperLetters, i, i)
    ELSE c

\* strings.ToUpper(s), for the characters of 7-bit ASCII
RECURSIVE ToUpper(_)
ToUpper(s) ==
    IF s = "" THEN "" ELSE UpperChar(SubSeq(s, 1, 1)) \o ToUpper(SubSeq(s, 2, Len(s)))

\* faulty variant: the mechanism is compared as it was configured
getSASLOpt_CaseSensitive(saslConfig) ==
    IF saslConfig.Mechanism \in {"PLAIN", "SCRAM-SHA-256", "SCRAM-SHA-512"}
    THEN [opt |-> saslConfig.Mechanism, err |-> NilErr]
    ELSE [opt |-> "",
          err |-> "unsupported SASL mechanism: " \o saslConfig.Mechanism
                    \o " (supported: PLAIN, SCRAM-SHA-256, SCRAM-SHA-512)"]

\* getSASLOpt: the kgo option of the mechanism, "" for nil
getSASLOpt(saslConfig) ==
    LET mechanism == ToUpper(saslConfig.Mechanism)
    IN  CASE mechanism = "PLAIN" -> [opt |-> "PLAIN", err |-> NilErr]
          [] mechanism = "SCRAM-SHA-256" -> [opt |-> "SCRAM-SHA-256", err |-> NilErr]
          [] mechanism = "SCRAM-SHA-512" -> [opt |-> "SCRAM-SHA-512", err |-> NilErr]
          [] OTHER ->
               [opt |-> "",
                err |-> "unsupported SASL mechanism: " \o mechanism
                          \o " (supported: PLAIN, SCRAM-SHA-256, SCRAM-SHA-512)"]

\* the errors defaultClientFactory can return for a Checker, NilErr when it
\* returns a client and its cleanup
defaultClientFactory(c) ==
    LET sasl == getSASLOpt(c.saslConfig)
    IN  IF c.saslConfig.Enabled /\ sasl.err # NilErr
        THEN {"failed to configure SASL: " \o sasl.err}
        ELSE {NilErr} \cup FactoryErrs

\* c.clientFactory()
FactoryOutcomes == defaultClientFactory(checker)
CallOutcomes == {NilErr} \cup CallErrs

\* context.WithTimeout(parent, timeout): done as soon as the parent is
WithTimeout(parent, timeout) == [parent |-> parent, timeout |-> timeout]

\* faulty variant: the checks derive their context from context.Background()
CheckContext_Background(parent) == WithTimeout("active", checker.checkTimeout)

\* ctx, cancel := context.WithTimeout(ctx, c.checkTimeout), in every check
CheckContext(parent) == WithTimeout(parent, checker.checkTimeout)

\* what a client call made under callCtx can return: the context's error when
\* the context is canceled before the answer arrives, otherwise the answer,
\* a transport error, or the deadline of callCtx
ClientOutcomes(callCtx) ==
    IF callCtx.parent = "canceled" THEN {"context canceled"} ELSE CallOutcomes

\* NewChecker(brokerID, "b0:9092, b1:9092", 10s, ...): the servers split at
\* the commas and trimmed, the default factory installed
NewChecker ==
    [bootstrapServers |-> <<"b0:9092", "b1:9092">>, checkTimeout |-> 10,
     saslConfig |-> [Enabled |-> FALSE, Mechanism |-> "PLAIN"],
     clientFactory |-> "defaultClientFactory"]

NoEnv == [name \in {} |-> ""]
NoCgroup == [version |-> 0]
NoServer == [phase |-> "none"]
NoConfig == [err |-> "uninitialized"]

\* faulty variant: the factory hands every evaluation the same client
NewClient_Shared(err) == IF err = NilErr THEN 1 ELSE 0

\* the client a factory call returns: a new one, or nil with an error
NewClient(err) == IF err = NilErr THEN Len(clients) + 1 ELSE 0

Cleanups(ev) == Len(SelectSeq(ev.log, LAMBDA x : x.call = "cleanup"))

\* faulty variant: the first client is kept in the Checker for later requests
Begun_KeepsClient(e, new, err) ==
    /\ evals' = [evals EXCEPT ![e] = new]
    /\ clients' = IF err = NilErr THEN Append(clients, 0) ELSE clients
    /\ runs' = runs + 1
    /\ checker' = [checker EXCEPT !.clientFactory = "cachedClient"]
    /\ UNCHANGED <<history, cgroup, scrapes, server, ctx, env, config, brokerID, cluster, out>>

\* the evaluation in slot e starts: its factory call has returned
Begun(e, new, err) ==
    /\ evals' = [evals EXCEPT ![e] = new]
    /\ clients' = IF err = NilErr THEN Append(clients, 0) ELSE clients
    /\ runs' = runs + 1
    /\ UNCHANGED <<history, cgroup, scrapes, server, checker, ctx, env, config, brokerID, cluster, out>>

\* the evaluation in slot e made one more client call; a cleanup it ran
\* closes its client
Stepped(e, new) ==
    /\ evals' = [evals EXCEPT ![e] = new]
    /\ clients' = IF Cleanups(new) > Cleanups(evals[e])
                  THEN [clients EXCEPT ![new.adm] = @ + 1]
                  ELSE clients
    /\ UNCHANGED <<history, cgroup, scrapes, server, checker, ctx, env, config, brokerID, cluster, runs, out>>

LivenessHandler(e) ==
    \/ /\ evals[e].pc = "idle" /\ runs < MaxRuns
       /\ \E err \in FactoryOutcomes :
            Begun(e, LH_Factory(evals[e], NewClient(err), err), err)
    \/ /\ evals[e].op = "LivenessHandler" /\ evals[e].pc = "check1"
       /\ \E callErr \in ClientOutcomes(CheckContext(ctx[e])) :
            Stepped(e, LH_Check1(evals[e], cluster.Metadata, callErr))

CheckLiveness(e) ==
    \/ /\ evals[e].pc = "idle" /\ runs < MaxRuns
       /\ \E err \in FactoryOutcomes :
            Begun(e, CL_Factory(evals[e], NewClient(err), err), err)
    \/ /\ evals[e].op = "CheckLiveness" /\ evals[e].pc = "check1"
       /\ \E callErr \in ClientOutcomes(CheckContext(ctx[e])) :
            Stepped(e, CL_Check1(evals[e], cluster.Metadata, callErr))

ReadinessHandler(e) ==
    \/ /\ evals[e].pc = "idle" /\ runs < MaxRuns
       /\ \E err \in FactoryOutcomes :
            Begun(e, RH_Factory(evals[e], NewClient(err), err), err)
    \/ /\ evals[e].op = "ReadinessHandler" /\ evals[e].pc = "check1"
       /\ \E callErr \in ClientOutcomes(CheckContext(ctx[e])) :
            Stepped(e, RH_Check1(evals[e], cluster.Metadata, callErr))
    \/ /\ evals[e].op = "ReadinessHandler" /\ evals[e].pc = "check2"
       /\ \E callErr \in ClientOutcomes(CheckContext(ctx[e])) :
            Stepped(e, RH_Check2(evals[e], cluster.Metadata, callErr))
    \/ /\ evals[e].op = "ReadinessHandler" /\ evals[e].pc = "check3"
       /\ \E callErr \in ClientOutcomes(CheckContext(ctx[e])) :
            Stepped(e, RH_Check3(evals[e], cluster.Metadata, callErr))
    \/ /\ evals[e].op = "ReadinessHandler" /\ evals[e].pc = "check4"
       /\ \E callErr \in ClientOutcomes(CheckContext(ctx[e])) :
            Stepped(e, RH_Check4(evals[e], cluster.LogDirs, callErr))

CheckReadiness(e) ==
    \/ /\ evals[e].pc = "idle" /\ runs < MaxRuns
       /\ \E err \in FactoryOutcomes :
            Begun(e, CR_Factory(evals[e], NewClient(err), err), err)
    \/ /\ evals[e].op = "CheckReadiness" /\ evals[e].pc = "check1"
       /\ \E callErr \in ClientOutcomes(CheckContext(ctx[e])) :
            Stepped(e, CR_Check1(evals[e], cluster.Metadata, callErr))
    \/ /\ evals[e].op = "CheckReadiness" /\ evals[e].pc = "check2"
       /\ \E callErr \in ClientOutcomes(CheckContext(ctx[e])) :
            Stepped(e, CR_Check2(evals[e], cluster.Metadata, callErr))
    \/ /\ evals[e].op = "CheckReadiness" /\ evals[e].pc = "check3"
       /\ \E callErr \in ClientOutcomes(CheckContext(ctx[e])) :
            Stepped(e, CR_Check3(evals[e], cluster.Metadata, callErr))
    \/ /\ evals[e].op = "CheckReadiness" /\ evals[e].pc = "check4"
       /\ \E callErr \in ClientOutcomes(CheckContext(ctx[e])) :
            Stepped(e, CR_Check4(evals[e], cluster.LogDirs, callErr))

\* the evaluation has returned; the next request gets a fresh evaluation
Reset(e) ==
    /\ evals[e].pc = "done"
    /\ evals' = [evals EXCEPT ![e] = EvalInit]
    /\ UNCHANGED <<history, cgroup, scrapes, server, checker, ctx, env, config, brokerID, cluster, clients, runs, out>>

Clusters ==
    [Metadata : [Brokers : BrokerLists, Controller : Controllers,
                 Topics : TopicLists(1, 1)],
     LogDirs : LogDirLists(1, 1)]

Init ==
    /\ brokerID \in Nodes
    /\ cluster \in Clusters
    /\ evals = [e \in Slots |-> EvalInit]
    /\ clients = <<>>
    /\ runs = 0
    /\ out = NoOut
    /\ checker = NewChecker
    /\ ctx = [e \in Slots |-> "active"]
    /\ env = NoEnv
    /\ config = NoConfig
    /\ cgroup = NoCgroup
    /\ scrapes = <<>>
    /\ server = NoServer
    /\ history = {}

Next ==
    \E e \in Slots :
        \/ LivenessHandler(e)
        \/ CheckLiveness(e)
        \/ ReadinessHandler(e)
        \/ CheckReadiness(e)
        \/ Reset(e)

Spec == Init /\ [][Next]_vars

----------------------------------------------------------------------------
(* Concurrent requests: net/http serves every request on a goroutine of    *)
(* its own (server.go), so two evaluations of the one Checker interleave   *)
(* at their client calls.                                                  *)

Requests == {1, 2}

UnderReplicatedTopic ==
    [Partitions |-> <<[Replicas |-> <<2, 0>>, ISR |-> <<2, 1>>]>>]

ClustersConc ==
    [Metadata : [Brokers : {<<0>>, <<2, 1>>}, Controller : {-1, 2},
                 Topics : {<<>>, <<UnderReplicatedTopic>>}],
     LogDirs : {<<>>, <<[Err |-> NilErr, Parts |-> <<TRUE>>]>>}]

InitConc ==
    /\ brokerID \in {0, 1}
    /\ cluster \in ClustersConc
    /\ evals = [e \in Requests |-> EvalInit]
    /\ clients = <<>>
    /\ runs = 0
    /\ out = NoOut
    /\ checker = NewChecker
    /\ ctx = [e \in Requests |-> "active"]
    /\ env = NoEnv
    /\ config = NoConfig
    /\ cgroup = NoCgroup
    /\ scrapes = <<>>
    /\ server = NoServer
    /\ history = {}

NextConc ==
    \E e \in Requests :
        \/ LivenessHandler(e)
        \/ CheckLiveness(e)
        \/ ReadinessHandler(e)
        \/ CheckReadiness(e)

SpecConc == InitConc /\ [][NextConc]_vars

----------------------------------------------------------------------------
(* Cancellation: the context of the request (r.Context() in the handlers,  *)
(* the ctx argument of the Check functions) is canceled while the          *)
(* evaluation is between its factory call and its return.                  *)

CancelRequest(e) ==
    /\ ctx[e] = "active"
    /\ evals[e].pc \in {"check1", "check2", "check3", "check4"}
    /\ ctx' = [ctx EXCEPT ![e] = "canceled"]
    /\ UNCHANGED <<history, cgroup, scrapes, server, checker, env, config, brokerID, cluster, evals, clients, runs, out>>

InitCancel ==
    /\ brokerID \in {0, 1}
    /\ cluster \in ClustersConc
    /\ evals = [e \in Slots |-> EvalInit]
    /\ clients = <<>>
    /\ runs = 0
    /\ out = NoOut
    /\ checker = NewChecker
    /\ ctx = [e \in Slots |-> "active"]
    /\ env = NoEnv
    /\ config = NoConfig
    /\ cgroup = NoCgroup
    /\ scrapes = <<>>
    /\ server = NoServer
    /\ history = {}

NextCancel ==
    \E e \in Slots :
        \/ LivenessHandler(e)
        \/ CheckLiveness(e)
        \/ ReadinessHandler(e)
        \/ CheckReadiness(e)
        \/ CancelRequest(e)

SpecCancel == InitCancel /\ [][NextCancel]_vars

----------------------------------------------------------------------------
(* SASL: the Checker is constructed with a SASLConfig and its default      *)
(* factory serves the requests.                                            *)

Mechanisms ==
    {"PLAIN", "plain", "Plain", "SCRAM-SHA-256", "scram-sha-256",
     "SCRAM-SHA-512", "Scram-Sha-512", "GSSAPI", "", "PLAIN ", "SCRAM-SHA-1",
     "SCRAMSHA256", "oauthbearer"}

InitSASL ==
    /\ brokerID \in {0, 1}
    /\ cluster \in ClustersConc
    /\ evals = [e \in Slots |-> EvalInit]
    /\ clients = <<>>
    /\ runs = 0
    /\ out = NoOut
    /\ \E saslConfig \in [Enabled : BOOLEAN, Mechanism : Mechanisms] :
         checker = [NewChecker EXCEPT !.saslConfig = saslConfig]
    /\ ctx = [e \in Slots |-> "active"]
    /\ env = NoEnv
    /\ config = NoConfig
    /\ cgroup = NoCgroup
    /\ scrapes = <<>>
    /\ server = NoServer
    /\ history = {}

NextSASL ==
    \E e \in Slots :
        \/ LivenessHandler(e)
        \/ CheckLiveness(e)
        \/ ReadinessHandler(e)
        \/ CheckReadiness(e)

SpecSASL == InitSASL /\ [][NextSASL]_vars

----------------------------------------------------------------------------
(* The check functions called directly on a client, as the package's       *)
(* callers and tests do: out is the call's input error and its result.     *)

RECURSIVE TotalParts(_)
TotalParts(topics) ==
    IF topics = <<>> THEN 0
    ELSE Len(Head(topics).Partitions) + TotalParts(Tail(topics))

\* topic lists of at most MaxTopics topics and MaxTotalParts partitions in all
BoundedTopicLists ==
    {tl \in TopicLists(MaxTopics, MaxTotalParts) : TotalParts(tl) <= MaxTotalParts}

EmptyMetadata == [Brokers |-> <<>>, Controller |-> -1, Topics |-> <<>>]

CallBrokerInMetadata ==
    /\ out = NoOut
    /\ \E callErr \in CallOutcomes :
         out' = [fn |-> "BrokerInMetadata", callErr |-> callErr,
                 res |-> BrokerInMetadata(cluster.Metadata, callErr)]
    /\ UNCHANGED <<history, cgroup, scrapes, server, checker, ctx, env, config, brokerID, cluster, evals, clients, runs>>

CallControllerElected ==
    /\ out = NoOut
    /\ \E callErr \in CallOutcomes :
         out' = [fn |-> "ControllerElected", callErr |-> callErr,
                 res |-> ControllerElected(cluster.Metadata, callErr)]
    /\ UNCHANGED <<history, cgroup, scrapes, server, checker, ctx, env, config, brokerID, cluster, evals, clients, runs>>

CallUnderReplicatedPartitions ==
    /\ out = NoOut
    /\ \E callErr \in CallOutcomes :
         out' = [fn |-> "UnderReplicatedPartitions", callErr |-> callErr,
                 res |-> UnderReplicatedPartitions(cluster.Metadata, callErr)]
    /\ UNCHANGED <<history, cgroup, scrapes, server, checker, ctx, env, config, brokerID, cluster, evals, clients, runs>>

CallLogDirsHealthy ==
    /\ out = NoOut
    /\ \E callErr \in CallOutcomes :
         out' = [fn |-> "LogDirsHealthy", callErr |-> callErr,
                 res |-> LogDirsHealthy(cluster.LogDirs, callErr)]
    /\ UNCHANGED <<history, cgroup, scrapes, server, checker, ctx, env, config, brokerID, cluster, evals, clients, runs>>

InitChecks ==
    /\ brokerID \in Nodes
    /\ \/ \E b \in BrokerLists, c \in Controllers :
            cluster = [Metadata |-> [EmptyMetadata EXCEPT !.Brokers = b,
                                                          !.Controller = c],
                       LogDirs |-> <<>>]
       \/ \E tl \in BoundedTopicLists :
            cluster = [Metadata |-> [EmptyMetadata EXCEPT !.Topics = tl],
                       LogDirs |-> <<>>]
       \/ \E ld \in LogDirLists(MaxDirs, MaxPlacements) :
            cluster = [Metadata |-> EmptyMetadata, LogDirs |-> ld]
    /\ evals = [e \in Slots |-> EvalInit]
    /\ clients = <<>>
    /\ runs = 0
    /\ out = NoOut
    /\ checker = NewChecker
    /\ ctx = [e \in Slots |-> "active"]
    /\ env = NoEnv
    /\ config = NoConfig
    /\ cgroup = NoCgroup
    /\ scrapes = <<>>
    /\ server = NoServer
    /\ history = {}

NextChecks ==
    \/ CallBrokerInMetadata
    \/ CallControllerElected
    \/ CallUnderReplicatedPartitions
    \/ CallLogDirsHealthy

SpecChecks == InitChecks /\ [][NextChecks]_vars

----------------------------------------------------------------------------
(* Discovery (discovery.go).  Strings are strings; an index is 0-based as  *)
(* in Go, and a function that returns (value, error) returns [val, err].   *)

MaxHostLen == 4
MaxLinkChunks == 3
MaxReplicas == 3

Int32Max == 2147483647

\* s[from:] and s[:to]
SliceFrom(s, from) == SubSeq(s, from + 1, Len(s))
SliceTo(s, to) == SubSeq(s, 1, to)

\* the 0-based indexes at which substr occurs in s
Occurrences(s, substr) ==
    {i \in 0..(Len(s) - Len(substr)) : SubSeq(s, i + 1, i + Len(substr)) = substr}

\* strings.LastIndex(s, substr)
LastIndex(s, substr) ==
    LET at == Occurrences(s, substr)
    IN  IF at = {} THEN -1 ELSE CHOOSE i \in at : \A j \in at : j <= i

\* strings.Index(s, substr)
Index(s, substr) ==
    LET at == Occurrences(s, substr)
    IN  IF at = {} THEN -1 ELSE CHOOSE i \in at : \A j \in at : i <= j

Digits == <<"0", "1", "2", "3", "4", "5", "6", "7", "8", "9">>

IsDigit(c) == \E d \in DOMAIN Digits : Digits[d] = c
DigitValue(c) == (CHOOSE d \in DOMAIN Digits : Digits[d] = c) - 1

\* the magnitude read so far by strconv.ParseUint against the cutoff 1<<31:
\* a number up to Int32Max, -1 for exactly 1<<31, -2 for anything above,
\* -3 for a character that is no digit
RECURSIVE Magnitude(_, _)
Magnitude(s, acc) ==
    IF s = "" THEN acc
    ELSE LET c == SubSeq(s, 1, 1)
             rest == SubSeq(s, 2, Len(s))
             d == DigitValue(c)
         IN  IF ~IsDigit(c) THEN -3
             ELSE IF acc < 0 THEN Magnitude(rest, -2)
             ELSE IF acc > Int32Max \div 10 THEN Magnitude(rest, -2)
             ELSE IF acc = Int32Max \div 10 /\ d > Int32Max % 10
             THEN Magnitude(rest, IF d = (Int32Max % 10) + 1 THEN -1 ELSE -2)
             ELSE Magnitude(rest, acc * 10 + d)

\* strconv.ParseInt(s, 10, 32): an optional sign, then decimal digits only
ParseInt(s) ==
    LET syntax == [val |-> 0, err |-> "strconv.ParseInt: parsing \"" \o s
                                       \o "\": invalid syntax"]
        range == [val |-> 0, err |-> "strconv.ParseInt: parsing \"" \o s
                                      \o "\": value out of range"]
        sign == IF s = "" THEN "" ELSE SubSeq(s, 1, 1)
        neg == sign = "-"
        digits == IF sign \in {"+", "-"} THEN SubSeq(s, 2, Len(s)) ELSE s
        un == Magnitude(digits, 0)
    IN  IF digits = "" \/ un = -3 THEN syntax
        ELSE IF un = -2 \/ (un = -1 /\ ~neg) THEN range
        ELSE IF un = -1 THEN [val |-> (-Int32Max) - 1, err |-> NilErr]
        ELSE [val |-> IF neg THEN -un ELSE un, err |-> NilErr]

\* faulty variant: the name is cut at its first hyphen
ParseBrokerIDFromHostname_FirstHyphen(hostname) ==
    LET firstHyphen == Index(hostname, "-")
        r == ParseInt(SliceFrom(hostname, firstHyphen + 1))
    IN  IF firstHyphen = -1 \/ firstHyphen = Len(hostname) - 1 \/ r.err # NilErr
        THEN [val |-> 0, err |-> "invalid hostname format: " \o hostname]
        ELSE [val |-> r.val, err |-> NilErr]

ParseBrokerIDFromHostname(hostname) ==
    LET lastHyphen == LastIndex(hostname, "-")
        indexStr == SliceFrom(hostname, lastHyphen + 1)
        r == ParseInt(indexStr)
    IN  IF lastHyphen = -1
        THEN [val |-> 0, err |-> "invalid hostname format (no hyphen): " \o hostname]
        ELSE IF lastHyphen = Len(hostname) - 1
        THEN [val |-> 0,
              err |-> "invalid hostname format (trailing hyphen): " \o hostname]
        ELSE IF r.err # NilErr
        THEN [val |-> 0, err |-> "failed to parse replica index from hostname "
                                  \o hostname \o ": " \o r.err]
        ELSE [val |-> r.val, err |-> NilErr]

\* strings.Join(elems, sep)
RECURSIVE Join(_, _)
Join(elems, sep) ==
    IF elems = <<>> THEN ""
    ELSE IF Len(elems) = 1 THEN elems[1]
    ELSE elems[1] \o sep \o Join(Tail(elems), sep)

\* fmt.Sprintf("replica-%d.%s.%s.%s.cpln.local:%d", i, ...)
ReplicaAddress(i, workloadName, location, gvcName, port) ==
    "replica-" \o ToString(i) \o "." \o workloadName \o "." \o location \o "."
        \o gvcName \o ".cpln.local:" \o ToString(port)

\* faulty variant: the replica count is used as it comes
BuildBootstrapServers_AsGiven(workloadName, location, gvcName, replicaCount, port) ==
    Join([i \in 1..replicaCount |->
            ReplicaAddress(i - 1, workloadName, location, gvcName, port)], ",")

BuildBootstrapServers(workloadName, location, gvcName, replicaCount, port) ==
    LET count == IF replicaCount <= 0 THEN 1 ELSE replicaCount
        servers == [i \in 1..count |->
                      ReplicaAddress(i - 1, workloadName, location, gvcName, port)]
    IN  Join(servers, ",")

\* faulty variant: what follows the segment is returned with it
ParseWorkloadNameFromLink_NoTrim(link) ==
    LET prefix == "/workload/"
        idx == LastIndex(link, prefix)
        name == SliceFrom(link, idx + Len(prefix))
    IN  IF idx = -1
        THEN [val |-> "", err |-> "invalid CPLN_WORKLOAD format (missing /workload/): "
                                   \o link]
        ELSE IF name = ""
        THEN [val |-> "", err |-> "invalid CPLN_WORKLOAD format (empty workload name): "
                                   \o link]
        ELSE [val |-> name, err |-> NilErr]

ParseWorkloadNameFromLink(link) ==
    LET prefix == "/workload/"
        idx == LastIndex(link, prefix)
        name == SliceFrom(link, idx + Len(prefix))
        slashIdx == Index(name, "/")
    IN  IF idx = -1
        THEN [val |-> "", err |-> "invalid CPLN_WORKLOAD format (missing /workload/): "
                                   \o link]
        ELSE IF name = ""
        THEN [val |-> "", err |-> "invalid CPLN_WORKLOAD format (empty workload name): "
                                   \o link]
        ELSE IF slashIdx # -1
        THEN [val |-> SliceTo(name, slashIdx), err |-> NilErr]
        ELSE [val |-> name, err |-> NilErr]

\* the functions that read the process environment; environ[name] is
\* os.Getenv(name), "" for a variable that is not set
DiscoverBrokerID(environ) ==
    IF environ.HOSTNAME = ""
    THEN [val |-> 0, err |-> "HOSTNAME environment variable not set"]
    ELSE ParseBrokerIDFromHostname(environ.HOSTNAME)

DiscoverWorkloadName(environ) ==
    IF environ.CPLN_WORKLOAD = ""
    THEN [val |-> "", err |-> "CPLN_WORKLOAD environment variable not set"]
    ELSE ParseWorkloadNameFromLink(environ.CPLN_WORKLOAD)

DiscoverGvcName(environ) ==
    IF environ.CPLN_GVC = ""
    THEN [val |-> "", err |-> "CPLN_GVC environment variable not set"]
    ELSE [val |-> environ.CPLN_GVC, err |-> NilErr]

DiscoverLocation(environ) ==
    IF environ.CPLN_LOCATION = ""
    THEN [val |-> "", err |-> "CPLN_LOCATION environment variable not set"]
    ELSE [val |-> SliceFrom(environ.CPLN_LOCATION,
                            LastIndex(environ.CPLN_LOCATION, "/") + 1),
          err |-> NilErr]

(* The discovery functions called directly, as their tests call them.      *)

RECURSIVE Concat(_)
Concat(chunks) ==
    IF chunks = <<>> THEN "" ELSE Head(chunks) \o Concat(Tail(chunks))

HostChars == {"k", "-", "7", "0", "+"}

\* every name of at most MaxHostLen characters, the names of the tests and
\* names around the 32-bit limit
HostNames ==
    {Concat(q) : q \in SeqsUpTo(HostChars, MaxHostLen)}
      \cup {"kafka-7", "my-kafka-cluster-2", "kafka-cluster-0", "kafka-abc",
            "k-2147483647", "k-2147483648", "k-02147483647", "k-99999999999",
            "k-2147483650", "k-1-3000000000"}

LinkChunks == {"/workload/", "/workload", "workload/", "/", "a", "/org/o"}

Links ==
    {Concat(q) : q \in SeqsUpTo(LinkChunks, MaxLinkChunks)}
      \cup {"/org/gitops/gvc/igor-kafka/workload/kafka-fix-cluster"}

CallParseBrokerIDFromHostname ==
    /\ out = NoOut
    /\ \E hostname \in HostNames :
         out' = [fn |-> "ParseBrokerIDFromHostname", hostname |-> hostname,
                 res |-> ParseBrokerIDFromHostname(hostname)]
    /\ UNCHANGED <<history, cgroup, scrapes, server, checker, ctx, env, config, brokerID, cluster, evals, clients, runs>>

CallBuildBootstrapServers ==
    /\ out = NoOut
    /\ \E workloadName \in {"kafka", ""}, location \in {"aws-eu-central-1", "l"},
          gvcName \in {"my-gvc", "g"}, replicaCount \in (-2)..MaxReplicas,
          port \in {9092, 0} :
         out' = [fn |-> "BuildBootstrapServers", workloadName |-> workloadName,
                 location |-> location, gvcName |-> gvcName,
                 replicaCount |-> replicaCount, port |-> port,
                 res |-> BuildBootstrapServers(workloadName, location, gvcName,
                                               replicaCount, port)]
    /\ UNCHANGED <<history, cgroup, scrapes, server, checker, ctx, env, config, brokerID, cluster, evals, clients, runs>>

CallParseWorkloadNameFromLink ==
    /\ out = NoOut
    /\ \E link \in Links :
         out' = [fn |-> "ParseWorkloadNameFromLink", link |-> link,
                 res |-> ParseWorkloadNameFromLink(link)]
    /\ UNCHANGED <<history, cgroup, scrapes, server, checker, ctx, env, config, brokerID, cluster, evals, clients, runs>>

\* DiscoverLocation on a bare name, a link, and links cut short
CallDiscoverLocation ==
    /\ out = NoOut
    /\ \E location \in {"", "aws-eu-central-1", "/org/o/location/aws-eu-central-1",
                       "/org/o/location/", "/", "a/b", "//"} :
         out' = [fn |-> "DiscoverLocation", location |-> location,
                 res |-> DiscoverLocation([CPLN_LOCATION |-> location])]
    /\ UNCHANGED <<history, cgroup, scrapes, server, checker, ctx, env, config, brokerID, cluster, evals, clients, runs>>

InitDiscovery ==
    /\ brokerID = 0
    /\ cluster = [Metadata |-> EmptyMetadata, LogDirs |-> <<>>]
    /\ evals = [e \in Slots |-> EvalInit]
    /\ clients = <<>>
    /\ runs = 0
    /\ out = NoOut
    /\ checker = NewChecker
    /\ ctx = [e \in Slots |-> "active"]
    /\ env = NoEnv
    /\ config = NoConfig
    /\ cgroup = NoCgroup
    /\ scrapes = <<>>
    /\ server = NoServer
    /\ history = {}

NextDiscovery ==
    \/ CallParseBrokerIDFromHostname
    \/ CallBuildBootstrapServers
    \/ CallParseWorkloadNameFromLink
    \/ CallDiscoverLocation

SpecDiscovery == InitDiscovery /\ [][NextDiscovery]_vars

----------------------------------------------------------------------------
(* Startup (package types): init() calls Initialize, which fills Config    *)
(* from the environment.  config is what Initialize left behind: the       *)
(* error it returned, the Config fields, and trace, the Config fields and  *)
(* discovery functions it consulted after ParseSchema, in order.           *)

\* config.ParseSchema(Config): every field from its variable, the tag's
\* default for a variable that is not set; numeric variables hold numerals
ParseSchema(environ) ==
    [BrokerID |-> IF environ.BROKER_ID = "" THEN 0
                  ELSE ParseInt(environ.BROKER_ID).val,
     WorkloadName |-> environ.WORKLOAD_NAME,
     GvcName |-> environ.GVC_NAME,
     Location |-> environ.LOCATION,
     ReplicaCount |-> IF environ.REPLICA_COUNT = "" THEN 1
                      ELSE ParseInt(environ.REPLICA_COUNT).val,
     KafkaPort |-> IF environ.KAFKA_PORT = "" THEN 9092
                   ELSE ParseInt(environ.KAFKA_PORT).val,
     BootstrapServers |-> environ.BOOTSTRAP_SERVERS]

\* faulty variant: the broker ID is always discovered
BrokerIDExplicit_Never(environ) == FALSE

\* os.Getenv("BROKER_ID") == "" decides whether the ID is discovered
BrokerIDExplicit(environ) == environ.BROKER_ID # ""

\* faulty variant: the Config field is looked at but discovery decides
Resolved_DiscoveryOnly(override, field, discovered, source) ==
    [val |-> discovered.val, err |-> discovered.err, trace |-> <<field, source>>]

\* name := Config.<field>; if name == "" { discovered, err := Discover...() }
Resolved(override, field, discovered, source) ==
    IF override # ""
    THEN [val |-> override, err |-> NilErr, trace |-> <<field>>]
    ELSE [val |-> discovered.val, err |-> discovered.err,
          trace |-> <<field, source>>]

Initialize(environ) ==
    LET parsed == ParseSchema(environ)
        id == DiscoverBrokerID(environ)
        t == IF BrokerIDExplicit(environ) THEN <<>> ELSE <<"DiscoverBrokerID">>
        cfg == IF BrokerIDExplicit(environ) THEN parsed
               ELSE [parsed EXCEPT !.BrokerID = id.val]
        workloadName == Resolved(cfg.WorkloadName, "Config.WorkloadName",
                                 DiscoverWorkloadName(environ), "DiscoverWorkloadName")
        location == Resolved(cfg.Location, "Config.Location",
                             DiscoverLocation(environ), "DiscoverLocation")
        gvcName == Resolved(cfg.GvcName, "Config.GvcName",
                            DiscoverGvcName(environ), "DiscoverGvcName")
    IN  IF ~BrokerIDExplicit(environ) /\ id.err # NilErr
        THEN [err |-> id.err, trace |-> t, Config |-> parsed]
        ELSE IF cfg.BootstrapServers # ""
        THEN [err |-> NilErr, trace |-> t, Config |-> cfg]
        ELSE IF workloadName.err # NilErr
        THEN [err |-> workloadName.err, trace |-> t \o workloadName.trace,
              Config |-> cfg]
        ELSE IF location.err # NilErr
        THEN [err |-> location.err,
              trace |-> t \o workloadName.trace \o location.trace, Config |-> cfg]
        ELSE IF gvcName.err # NilErr
        THEN [err |-> gvcName.err,
              trace |-> t \o workloadName.trace \o location.trace \o gvcName.trace,
              Config |-> cfg]
        ELSE [err |-> NilErr,
              trace |-> t \o workloadName.trace \o location.trace \o gvcName.trace
                          \o <<"BuildBootstrapServers">>,
              Config |-> [cfg EXCEPT !.BootstrapServers =
                  BuildBootstrapServers(workloadName.val, location.val, gvcName.val,
                                        cfg.ReplicaCount, cfg.KafkaPort)]]

\* func init(): Initialize runs once, when the package is loaded
Startup ==
    /\ config = NoConfig
    /\ config' = Initialize(env)
    /\ UNCHANGED <<history, cgroup, scrapes, server, checker, ctx, env, brokerID, cluster, evals, clients, runs, out>>

\* the environments of the process: "" is a variable that is not set
Environments ==
    [HOSTNAME : {"", "kafka-2", "kafka", "kafka-", "kafka-x"},
     BROKER_ID : {"", "0", "10"},
     BOOTSTRAP_SERVERS : {"", "broker1:9092,broker2:9092"},
     WORKLOAD_NAME : {"", "my-kafka"},
     CPLN_WORKLOAD : {"", "/org/o/gvc/g/workload/kafka", "/org/o/gvc/g"},
     LOCATION : {"", "gcp-us-east1"},
     CPLN_LOCATION : {"", "/org/o/location/aws-us-west-2", "aws/"},
     GVC_NAME : {"", "my-gvc"},
     CPLN_GVC : {"", "g"},
     REPLICA_COUNT : {"", "2"},
     KAFKA_PORT : {""}]

InitStartup ==
    /\ brokerID = 0
    /\ cluster = [Metadata |-> EmptyMetadata, LogDirs |-> <<>>]
    /\ evals = [e \in Slots |-> EvalInit]
    /\ clients = <<>>
    /\ runs = 0
    /\ out = NoOut
    /\ checker = NewChecker
    /\ ctx = [e \in Slots |-> "active"]
    /\ env \in Environments
    /\ config = NoConfig
    /\ cgroup = NoCgroup
    /\ scrapes = <<>>
    /\ server = NoServer
    /\ history = {}

NextStartup == Startup

SpecStartup == InitStartup /\ [][NextStartup]_vars

----------------------------------------------------------------------------
(* The memory metrics: the cgroup readers.  A uint64 is kept at its full
   width as three limbs of nine decimal digits, most significant first. *)

\* the most lines the stat file holds
MaxStatLines == 2

LimbBase == 1000000000

Zero == <<0, 0, 0>>
One == <<0, 0, 1>>

\* 1<<64 - 1
MaxUint64 == <<18, 446744073, 709551615>>

\* a >= b on uint64
GreaterEq(a, b) ==
    \/ a[1] > b[1]
    \/ a[1] = b[1] /\ a[2] > b[2]
    \/ a[1] = b[1] /\ a[2] = b[2] /\ a[3] >= b[3]

\* a - b on uint64, for a >= b
Minus(a, b) ==
    LET low == a[3] - b[3]
        borrow1 == IF low < 0 THEN 1 ELSE 0
        mid == a[2] - b[2] - borrow1
        borrow2 == IF mid < 0 THEN 1 ELSE 0
    IN  <<a[1] - b[1] - borrow2,
          IF mid < 0 THEN mid + LimbBase ELSE mid,
          IF low < 0 THEN low + LimbBase ELSE low>>

\* a - b on uint64 as the machine computes it: modulo 1<<64
Sub(a, b) ==
    IF GreaterEq(a, b) THEN Minus(a, b)
    ELSE Minus(MaxUint64, Minus(Minus(b, a), One))

\* unicode.IsSpace, on the characters the files hold
IsSpace(c) == c \in {" ", "\n", "\t", "\r"}

\* strings.TrimSpace(s)
TrimSpace(s) ==
    LET solid == {i \in 1..Len(s) : ~IsSpace(SubSeq(s, i, i))}
    IN  IF solid = {} THEN ""
        ELSE SubSeq(s, CHOOSE i \in solid : \A j \in solid : i <= j,
                       CHOOSE i \in solid : \A j \in solid : j <= i)

\* strings.Fields(s): the maximal runs of characters that are no space
Fields(s) ==
    LET solid == {i \in 1..Len(s) : ~IsSpace(SubSeq(s, i, i))}
        starts == {i \in solid : (i - 1) \notin solid}
        ends == {i \in solid : (i + 1) \notin solid}
        start(k) == CHOOSE i \in starts : Cardinality({j \in starts : j <= i}) = k
        end(k) == CHOOSE i \in ends : Cardinality({j \in ends : j <= i}) = k
    IN  [k \in 1..Cardinality(starts) |-> SubSeq(s, start(k), end(k))]

\* strconv.ParseUint(s, 10, 64): decimal digits only, no sign
ParseUint(s) ==
    LET syntax == [val |-> Zero, err |-> "strconv.ParseUint: parsing \"" \o s
                                          \o "\": invalid syntax"]
        range == [val |-> MaxUint64, err |-> "strconv.ParseUint: parsing \"" \o s
                                              \o "\": value out of range"]
        nonzero == {i \in 1..Len(s) : SubSeq(s, i, i) # "0"}
        significant == IF nonzero = {} THEN ""
                       ELSE SubSeq(s, CHOOSE i \in nonzero : \A j \in nonzero : i <= j,
                                   Len(s))
        padded == SubSeq("000000000000000000000000000", 1, 27 - Len(significant))
                      \o significant
        val == <<Magnitude(SubSeq(padded, 1, 9), 0),
                 Magnitude(SubSeq(padded, 10, 18), 0),
                 Magnitude(SubSeq(padded, 19, 27), 0)>>
    IN  IF s = "" \/ \E i \in 1..Len(s) : ~IsDigit(SubSeq(s, i, i)) THEN syntax
        ELSE IF Len(significant) > 20 THEN range
        ELSE IF ~GreaterEq(MaxUint64, val) THEN range
        ELSE [val |-> val, err |-> NilErr]

\* os.ReadFile and os.Open on a file that is not there
NotExist(path) == "open " \o path \o ": no such file or directory"

\* faulty variant: the token "max" is handed to the parser like any other
readUint64FromFile_NoMax(file, path) ==
    IF ~file.exists THEN [val |-> Zero, err |-> NotExist(path)]
    ELSE ParseUint(TrimSpace(file.data))

\* readUint64FromFile(path), on the file at the path
readUint64FromFile(file, path) ==
    IF ~file.exists THEN [val |-> Zero, err |-> NotExist(path)]
    ELSE LET value == TrimSpace(file.data)
         IN  IF value = "max" THEN [val |-> Zero, err |-> NilErr]
             ELSE ParseUint(value)

\* the scanner loop of readMemoryStat over the lines left
RECURSIVE ScanLines(_, _)
ScanLines(lines, stats) ==
    IF lines = <<>> THEN stats
    ELSE LET fields == Fields(Head(lines))
             parsed == ParseUint(fields[2])
         IN  IF Len(fields) # 2 THEN ScanLines(Tail(lines), stats)
             ELSE IF parsed.err # NilErr THEN ScanLines(Tail(lines), stats)
             ELSE ScanLines(Tail(lines),
                            [k \in DOMAIN stats \cup {fields[1]} |->
                                IF k = fields[1] THEN parsed.val ELSE stats[k]])

\* readMemoryStat(), on the stat file of the base path; scanner.Err() is the
\* error of a line longer than the scanner's buffer
readMemoryStat(file) ==
    IF ~file.exists THEN [stats |-> <<>>, err |-> NotExist("memory.stat")]
    ELSE IF file.tooLong
    THEN [stats |-> <<>>, err |-> "bufio.Scanner: token too long"]
    ELSE [stats |-> ScanLines(file.lines, <<>>), err |-> NilErr]

\* faulty variant: the subtraction is not guarded
WorkingSet_Unguarded(usage, inactiveFile) == Sub(usage, inactiveFile)

\* metrics.WorkingSet, zero unless the guard lets the subtraction happen
WorkingSet(usage, inactiveFile) ==
    IF GreaterEq(usage, inactiveFile) THEN Sub(usage, inactiveFile) ELSE Zero

\* float64(part) / float64(limit) when the limit is positive, kept as the two
\* operands of the division; the zero value of a float64 otherwise
Ratio(part, limit) ==
    IF limit # Zero THEN [num |-> part, den |-> limit]
    ELSE [num |-> Zero, den |-> One]

NilMetrics == [nil |-> TRUE]

\* what both readers do once the names of the files and of the resident-set
\* entry are fixed
ReadMemoryMetrics(files, usageName, limitName, failedUsage, failedLimit, failedStat, rss) ==
    LET usage == readUint64FromFile(files.usage, usageName)
        limit == readUint64FromFile(files.limit, limitName)
        stat == readMemoryStat(files.stat)
        \* stats[key]: the zero value for a key the map does not hold
        RSS == IF rss \in DOMAIN stat.stats THEN stat.stats[rss] ELSE Zero
        InactiveFile == IF "inactive_file" \in DOMAIN stat.stats
                        THEN stat.stats["inactive_file"] ELSE Zero
        working == WorkingSet(usage.val, InactiveFile)
    IN  IF usage.err # NilErr
        THEN [metrics |-> NilMetrics, err |-> failedUsage \o usage.err]
        ELSE IF limit.err # NilErr
        THEN [metrics |-> NilMetrics, err |-> failedLimit \o limit.err]
        ELSE IF stat.err # NilErr
        THEN [metrics |-> NilMetrics, err |-> failedStat \o stat.err]
        ELSE [metrics |-> [Usage |-> usage.val,
                           Limit |-> limit.val,
                           RSS |-> RSS,
                           InactiveFile |-> InactiveFile,
                           WorkingSet |-> working,
                           OOMRatio |-> Ratio(working, limit.val),
                           OOMFloorRatio |-> Ratio(RSS, limit.val)],
              err |-> NilErr]

\* (*CgroupV1Reader).ReadMemoryMetrics()
CgroupV1Reader_ReadMemoryMetrics(files) ==
    ReadMemoryMetrics(files, "memory.usage_in_bytes", "memory.limit_in_bytes",
                      "failed to read memory usage: ",
                      "failed to read memory limit: ",
                      "failed to read memory stat: ", "rss")

\* (*CgroupV2Reader).ReadMemoryMetrics()
CgroupV2Reader_ReadMemoryMetrics(files) ==
    ReadMemoryMetrics(files, "memory.current", "memory.max",
                      "failed to read memory.current: ",
                      "failed to read memory.max: ",
                      "failed to read memory.stat: ", "anon")

CgroupV1 == 1
CgroupV2 == 2

\* CgroupReader.ReadMemoryMetrics(), on the reader NewCgroupReader chose
CgroupReader_ReadMemoryMetrics(files) ==
    IF files.version = CgroupV1 THEN CgroupV1Reader_ReadMemoryMetrics(files)
    ELSE CgroupV2Reader_ReadMemoryMetrics(files)

\* what the usage and the limit file may hold
ValueFiles ==
    {[exists |-> FALSE, data |-> ""]} \cup
    [exists : {TRUE},
     data : {"100\n", "50\n", " 75 \n", "0\n", "max\n", "", "abc\n", "-5\n",
             "18446744073709551615\n", "18446744073709551616\n"}]

\* what a line of the stat file may hold
StatLines ==
    {"rss 30", "anon 30", "inactive_file 100", "inactive_file 20",
     "  inactive_file   60  ", "rss", "rss abc", "rss 1 2", "",
     "inactive_file 18446744073709551615"}

CgroupFiles ==
    [version : {CgroupV1, CgroupV2}, usage : ValueFiles, limit : ValueFiles,
     stat :
        {[exists |-> FALSE, lines |-> <<>>, tooLong |-> FALSE]} \cup
        {[exists |-> TRUE, lines |-> <<>>, tooLong |-> TRUE]} \cup
        [exists : {TRUE}, lines : SeqsUpTo(StatLines, MaxStatLines), tooLong : {FALSE}]]

\* one call of the reader on the files as they are
CallReadMemoryMetrics ==
    /\ out = NoOut
    /\ out' = [fn |-> "ReadMemoryMetrics", files |-> cgroup,
               res |-> CgroupReader_ReadMemoryMetrics(cgroup)]
    /\ UNCHANGED <<history, cgroup, scrapes, server, brokerID, cluster, evals, clients,
                   runs, checker, ctx, env, config>>

InitCgroup ==
    /\ brokerID = 0
    /\ cluster = [Metadata |-> EmptyMetadata, LogDirs |-> <<>>]
    /\ evals = [e \in Slots |-> EvalInit]
    /\ clients = <<>>
    /\ runs = 0
    /\ out = NoOut
    /\ checker = NewChecker
    /\ ctx = [e \in Slots |-> "active"]
    /\ env = NoEnv
    /\ config = NoConfig
    /\ cgroup \in CgroupFiles
    /\ scrapes = <<>>
    /\ server = NoServer
    /\ history = {}

SpecCgroup == InitCgroup /\ [][CallReadMemoryMetrics]_vars

----------------------------------------------------------------------------
(* The memory metrics: the collector, scraped while the files change. *)

\* the most scrapes followed
MaxScrapes == 2

\* prometheus.BuildFQName(namespace, subsystem, name)
BuildFQName(name) == "kafka" \o "_" \o "memory" \o "_" \o name

\* float64(v) of a uint64, kept as a quotient by one
Float64(v) == [num |-> v, den |-> One]

\* prometheus.MustNewConstMetric(desc, prometheus.GaugeValue, value): the
\* descriptors have no labels, so it never panics
MustNewConstMetric(desc, value) == [desc |-> desc, value |-> value]

\* faulty variant: a failed read sends the eight gauges at zero
Send_ZerosOnError(metrics, err) ==
    [i \in 1..8 |->
        MustNewConstMetric(
            BuildFQName(<<"usage_bytes", "limit_bytes", "rss_bytes",
                          "inactive_file_bytes", "working_set_bytes",
                          "non_reclaimable_bytes", "oom_ratio",
                          "oom_floor_ratio">>[i]),
            IF err # NilErr THEN [num |-> Zero, den |-> One]
            ELSE <<Float64(metrics.Usage), Float64(metrics.Limit),
                   Float64(metrics.RSS), Float64(metrics.InactiveFile),
                   Float64(metrics.WorkingSet), Float64(metrics.RSS),
                   metrics.OOMRatio, metrics.OOMFloorRatio>>[i])]

\* Collect once the reader has returned (metrics, err): what it sends on ch
Send(metrics, err) ==
    IF err # NilErr THEN <<>>
    ELSE <<MustNewConstMetric(BuildFQName("usage_bytes"), Float64(metrics.Usage)),
           MustNewConstMetric(BuildFQName("limit_bytes"), Float64(metrics.Limit)),
           MustNewConstMetric(BuildFQName("rss_bytes"), Float64(metrics.RSS)),
           MustNewConstMetric(BuildFQName("inactive_file_bytes"),
                              Float64(metrics.InactiveFile)),
           MustNewConstMetric(BuildFQName("working_set_bytes"),
                              Float64(metrics.WorkingSet)),
           MustNewConstMetric(BuildFQName("non_reclaimable_bytes"),
                              Float64(metrics.RSS)),
           MustNewConstMetric(BuildFQName("oom_ratio"), metrics.OOMRatio),
           MustNewConstMetric(BuildFQName("oom_floor_ratio"),
                              metrics.OOMFloorRatio)>>

\* (*Collector).Collect(ch): one call of the reader, then the sends
Collect(files) ==
    CHOOSE sent \in {Send(read.metrics, read.err) :
                        read \in {CgroupReader_ReadMemoryMetrics(files)}} : TRUE

\* the files a scrape may find: all there, all there and zero, and one of the
\* three missing or unreadable
ScrapeFiles ==
    LET present == [exists |-> TRUE, data |-> "100\n"]
        stat == [exists |-> TRUE, tooLong |-> FALSE,
                 lines |-> <<"rss 30", "anon 40">>]
        good == [usage |-> present,
                 limit |-> [present EXCEPT !.data = "200\n"],
                 stat |-> stat]
    IN  {good,
         [usage |-> [present EXCEPT !.data = "0\n"],
          limit |-> [present EXCEPT !.data = "max\n"],
          stat |-> [stat EXCEPT !.lines = <<>>]],
         [good EXCEPT !.usage.exists = FALSE],
         [good EXCEPT !.limit.data = "abc\n"],
         [good EXCEPT !.stat.exists = FALSE]}

\* the kernel rewrites the files between two scrapes
WriteFiles ==
    /\ Len(scrapes) < MaxScrapes
    /\ \E files \in ScrapeFiles :
         /\ cgroup' = [version |-> cgroup.version, usage |-> files.usage,
                       limit |-> files.limit, stat |-> files.stat]
         /\ cgroup' # cgroup
    /\ UNCHANGED <<history, scrapes, server, brokerID, cluster, evals, clients, runs, out,
                   checker, ctx, env, config>>

\* one scrape of /metrics: the registry calls Collect and gathers what it sent
Scrape ==
    /\ Len(scrapes) < MaxScrapes
    /\ scrapes' = Append(scrapes, [files |-> cgroup, sent |-> Collect(cgroup)])
    /\ UNCHANGED <<history, cgroup, server, brokerID, cluster, evals, clients, runs, out,
                   checker, ctx, env, config>>

InitCollect ==
    /\ brokerID = 0
    /\ cluster = [Metadata |-> EmptyMetadata, LogDirs |-> <<>>]
    /\ evals = [e \in Slots |-> EvalInit]
    /\ clients = <<>>
    /\ runs = 0
    /\ out = NoOut
    /\ checker = NewChecker
    /\ ctx = [e \in Slots |-> "active"]
    /\ env = NoEnv
    /\ config = NoConfig
    /\ \E version \in {CgroupV1, CgroupV2}, files \in ScrapeFiles :
         cgroup = [version |-> version, usage |-> files.usage,
                   limit |-> files.limit, stat |-> files.stat]
    /\ scrapes = <<>>
    /\ server = NoServer
    /\ history = {}

NextCollect ==
    \/ Scrape
    \/ WriteFiles

SpecCollect == InitCollect /\ [][NextCollect]_vars

----------------------------------------------------------------------------
(* The HTTP server from Start to the end of the process.  The requests are
   counted, not told apart; the time of the shutdown is counted in seconds. *)

\* the most requests in flight at once
MaxInFlight == 3

\* 10*time.Second, in seconds
GracePeriod == 10

ErrDeadlineExceeded == "context deadline exceeded"

\* faulty variant: the context of the shutdown has no deadline
DeadlineReached_Never(elapsed) == FALSE

\* context.WithTimeout(context.Background(), 10*time.Second) is done
DeadlineReached(elapsed) == elapsed >= GracePeriod

\* s.httpServer.ListenAndServe() binds the port and serves
ListenAndServe ==
    /\ server.phase = "select"
    /\ server.listener = "none"
    /\ server' = [server EXCEPT !.listener = "open"]
    /\ UNCHANGED <<history, cgroup, scrapes, brokerID, cluster, evals, clients, runs, out,
                   checker, ctx, env, config>>

\* s.httpServer.ListenAndServe() returns an error, which goes to errCh
ListenAndServeFails ==
    /\ server.phase = "select"
    /\ server.listener = "none"
    /\ server' = [server EXCEPT !.listener = "failed"]
    /\ UNCHANGED <<history, cgroup, scrapes, brokerID, cluster, evals, clients, runs, out,
                   checker, ctx, env, config>>

\* a connection is accepted and its request starts
Accept ==
    /\ server.phase # "exited"
    /\ server.listener = "open"
    /\ server.inflight < MaxInFlight
    /\ server' = [server EXCEPT !.inflight = @ + 1]
    /\ UNCHANGED <<history, cgroup, scrapes, brokerID, cluster, evals, clients, runs, out,
                   checker, ctx, env, config>>

\* a request in flight is answered; during a shutdown its connection is
\* closed as soon as it is idle
Finish ==
    /\ server.phase # "exited"
    /\ server.inflight > 0
    /\ server' = [server EXCEPT !.inflight = @ - 1]
    /\ UNCHANGED <<history, cgroup, scrapes, brokerID, cluster, evals, clients, runs, out,
                   checker, ctx, env, config>>

\* main's goroutine: sig := <-sigCh; cancel()
Signal ==
    /\ server.phase # "exited"
    /\ server.ctx = "active"
    /\ server' = [server EXCEPT !.ctx = "cancelled"]
    /\ UNCHANGED <<history, cgroup, scrapes, brokerID, cluster, evals, clients, runs, out,
                   checker, ctx, env, config>>

\* Start: case <-ctx.Done(): s.Shutdown() starts the timer and
\* httpServer.Shutdown closes the listener
Start_Shutdown ==
    /\ server.phase = "select"
    /\ server.ctx = "cancelled"
    /\ server' = [server EXCEPT !.phase = "shutdown", !.elapsed = 0,
                                !.listener = IF @ = "failed" THEN @ ELSE "closed"]
    /\ UNCHANGED <<history, cgroup, scrapes, brokerID, cluster, evals, clients, runs, out,
                   checker, ctx, env, config>>

\* Start: case err := <-errCh: return err
Start_ErrCh ==
    /\ server.phase = "select"
    /\ server.listener = "failed"
    /\ server' = [server EXCEPT !.phase = "returned", !.err = "listen tcp: bind: address already in use"]
    /\ UNCHANGED <<history, cgroup, scrapes, brokerID, cluster, evals, clients, runs, out,
                   checker, ctx, env, config>>

\* a second of the shutdown passes; the count stops at the grace period
Tick ==
    /\ server.phase = "shutdown"
    /\ server.elapsed < GracePeriod
    /\ server' = [server EXCEPT !.elapsed = @ + 1]
    /\ UNCHANGED <<history, cgroup, scrapes, brokerID, cluster, evals, clients, runs, out,
                   checker, ctx, env, config>>

\* httpServer.Shutdown(ctx) finds every connection idle and returns nil
Shutdown_Idle ==
    /\ server.phase = "shutdown"
    /\ server.inflight = 0
    /\ server' = [server EXCEPT !.phase = "returned", !.err = NilErr]
    /\ UNCHANGED <<history, cgroup, scrapes, brokerID, cluster, evals, clients, runs, out,
                   checker, ctx, env, config>>

\* httpServer.Shutdown(ctx) finds its context done and returns the context's
\* error; the connections still busy stay open
Shutdown_Deadline ==
    /\ server.phase = "shutdown"
    /\ DeadlineReached(server.elapsed)
    /\ server' = [server EXCEPT !.phase = "returned", !.err = ErrDeadlineExceeded]
    /\ UNCHANGED <<history, cgroup, scrapes, brokerID, cluster, evals, clients, runs, out,
                   checker, ctx, env, config>>

\* main after server.Start: os.Exit(1) on an error, the end of main
\* otherwise; the end of the process closes every connection left
Exit ==
    /\ server.phase = "returned"
    /\ server' = [server EXCEPT !.phase = "exited",
                                !.exit = IF server.err # NilErr THEN 1 ELSE 0,
                                !.listener = IF @ = "open" THEN "closed" ELSE @,
                                !.forced = server.inflight,
                                !.inflight = 0]
    /\ UNCHANGED <<history, cgroup, scrapes, brokerID, cluster, evals, clients, runs, out,
                   checker, ctx, env, config>>

InitServer ==
    /\ brokerID = 0
    /\ cluster = [Metadata |-> EmptyMetadata, LogDirs |-> <<>>]
    /\ evals = [e \in Slots |-> EvalInit]
    /\ clients = <<>>
    /\ runs = 0
    /\ out = NoOut
    /\ checker = NewChecker
    /\ ctx = [e \in Slots |-> "active"]
    /\ env = NoEnv
    /\ config = NoConfig
    /\ cgroup = NoCgroup
    /\ scrapes = <<>>
    /\ server = [phase |-> "select", listener |-> "none", ctx |-> "active",
                 inflight |-> 0, elapsed |-> 0, err |-> NilErr, exit |-> -1,
                 forced |-> 0]
    /\ history = {}

NextServer ==
    \/ ListenAndServe
    \/ ListenAndServeFails
    \/ Accept
    \/ Finish
    \/ Signal
    \/ Start_Shutdown
    \/ Start_ErrCh
    \/ Tick
    \/ Shutdown_Idle
    \/ Shutdown_Deadline
    \/ Exit

\* the scheduler runs Start, Shutdown and main whenever they can step, and
\* time passes; nothing makes a request finish
SpecServerFair ==
    /\ InitServer /\ [][NextServer]_vars
    /\ WF_vars(Start_Shutdown)
    /\ WF_vars(Start_ErrCh)
    /\ WF_vars(Tick)
    /\ WF_vars(Shutdown_Idle)
    /\ WF_vars(Shutdown_Deadline)
    /\ WF_vars(Exit)

----------------------------------------------------------------------------
(* A cluster that changes while a readiness probe runs: every check of the
   probe fetches the metadata anew (health.go, adm.Metadata in each of the
   three checks), so it sees the cluster as it is at the time of its call. *)

\* the metadata states the cluster moves between
ChurnMetadata ==
    [Brokers : {<<0>>, <<1>>}, Controller : {-1, 1},
     Topics : {<<>>, <<UnderReplicatedTopic>>}]

\* the cluster changes: a broker joins or leaves, the controller is elected or
\* lost, a replica falls out of sync or catches up
MetadataChanges ==
    /\ \E md \in ChurnMetadata :
         /\ md # cluster.Metadata
         /\ cluster' = [cluster EXCEPT !.Metadata = md]
         /\ history' = history \cup {md}
    /\ UNCHANGED <<cgroup, scrapes, server, checker, ctx, env, config, brokerID,
                   evals, clients, runs, out>>

InitChurn ==
    /\ brokerID = 0
    /\ cluster \in [Metadata : ChurnMetadata, LogDirs : {<<>>}]
    /\ evals = [e \in Slots |-> EvalInit]
    /\ clients = <<>>
    /\ runs = 0
    /\ out = NoOut
    /\ checker = NewChecker
    /\ ctx = [e \in Slots |-> "active"]
    /\ env = NoEnv
    /\ config = NoConfig
    /\ cgroup = NoCgroup
    /\ scrapes = <<>>
    /\ server = NoServer
    /\ history = {cluster.Metadata}

NextChurn ==
    \/ MetadataChanges
    \/ \E e \in Slots :
         \/ ReadinessHandler(e)
         \/ CheckReadiness(e)

SpecChurn == InitChurn /\ [][NextChurn]_vars

----------------------------------------------------------------------------
(* What the snapshot says, stated on sets and independently of the loops   *)
(* of the check functions.                                                 *)

Range(f) == {f[i] : i \in DOMAIN f}

Registered == brokerID \in Range(cluster.Metadata.Brokers)

HasController == cluster.Metadata.Controller >= 0

\* the (topic, partition) pairs with the broker in the replicas and not in the ISR
UnderReplicatedSet ==
    LET topics == cluster.Metadata.Topics
    IN  UNION {{<<t, p>> : p \in {q \in DOMAIN topics[t].Partitions :
                    /\ brokerID \in Range(topics[t].Partitions[q].Replicas)
                    /\ brokerID \notin Range(topics[t].Partitions[q].ISR)}}
               : t \in DOMAIN topics}

DirError == \E d \in DOMAIN cluster.LogDirs : cluster.LogDirs[d].Err # NilErr

FuturePlacement ==
    \E d \in DOMAIN cluster.LogDirs :
        \E j \in DOMAIN cluster.LogDirs[d].Parts : cluster.LogDirs[d].Parts[j]

(* What an evaluation did and answered.                                    *)

IsLiveness(ev) == ev.op \in {"LivenessHandler", "CheckLiveness"}
IsReadiness(ev) == ev.op \in {"ReadinessHandler", "CheckReadiness"}
IsHandler(ev) == ev.op \in {"LivenessHandler", "ReadinessHandler"}

ClientCalls(ev) ==
    SelectSeq(ev.log, LAMBDA x : x.call \in {"Metadata", "DescribeBrokerLogDirs"})
FactoryCalls(ev) == SelectSeq(ev.log, LAMBDA x : x.call = "clientFactory")

FactoryOK(ev) == Len(ev.log) > 0 /\ ev.log[1].err = NilErr
AllCallsOK(ev) == \A i \in DOMAIN ev.log : ev.log[i].err = NilErr

VerdictHealthy(ev) == IF IsHandler(ev) THEN ev.code = StatusOK ELSE ev.result.Healthy
VerdictMessage(ev) == IF IsHandler(ev) THEN ev.resp.ErrorMessage ELSE ev.result.Message

ReadinessOrder == <<"Metadata", "Metadata", "Metadata", "DescribeBrokerLogDirs">>

----------------------------------------------------------------------------
\* C1: in every readiness evaluation (CheckReadiness and ReadinessHandler) the
\* client calls made so far are a prefix of registration, controller,
\* under-replication, log directories; a call is made only after the factory
\* and every earlier call succeeded and every earlier check passed, so no call
\* follows a registration failure and DescribeBrokerLogDirs is called at most
\* once and only after three successful Metadata calls.
C1_ReadinessOrder ==
    \A e \in Slots :
        LET ev == evals[e]
            calls == ClientCalls(ev)
            n == Len(calls)
        IN  IsReadiness(ev) =>
              /\ n <= 4
              /\ \A i \in 1..n : calls[i].call = ReadinessOrder[i]
              /\ \A i \in 1..(n - 1) : calls[i].err = NilErr
              /\ n >= 1 => FactoryOK(ev)
              /\ n >= 2 => Registered
              /\ n >= 3 => HasController
              /\ n >= 4 => UnderReplicatedSet = {}

\* a readiness evaluation that ended on a registration failure after one call
C1_Witness ==
    \E e \in Slots :
        /\ IsReadiness(evals[e]) /\ evals[e].pc = "done"
        /\ AllCallsOK(evals[e]) /\ ~Registered
        /\ HasController /\ UnderReplicatedSet = {}
        /\ Len(ClientCalls(evals[e])) = 1

\* C2: on an unchanged snapshot with every call succeeding, CheckReadiness
\* returns Healthy=true with an empty message exactly when the broker is
\* registered, a controller is elected, no partition has the broker in its
\* replicas but not in its ISR, no directory carries an error and no placement
\* is future; otherwise it returns Healthy=false with a non-empty message.
C2_ReadinessVerdict ==
    \A e \in Slots :
        LET ev == evals[e]
            allHold == /\ Registered /\ HasController /\ UnderReplicatedSet = {}
                       /\ ~DirError /\ ~FuturePlacement
        IN  (ev.op = "CheckReadiness" /\ ev.pc = "done" /\ AllCallsOK(ev)) =>
              IF allHold
              THEN ev.result.Healthy /\ ev.result.Message = ""
              ELSE ~ev.result.Healthy /\ ev.result.Message # ""

\* CheckReadiness returned healthy with controller 0 elected
C2_Witness ==
    \E e \in Slots :
        /\ evals[e].op = "CheckReadiness" /\ evals[e].pc = "done"
        /\ AllCallsOK(evals[e])
        /\ evals[e].result = [Healthy |-> TRUE, Message |-> ""]
        /\ cluster.Metadata.Controller = 0
        /\ cluster.Metadata.Topics # <<>> /\ cluster.LogDirs # <<>>

\* the message of the lowest-numbered check the snapshot fails, "" if none
FirstFailure ==
    IF ~Registered THEN "broker not registered in cluster metadata"
    ELSE IF ~HasController THEN "no controller elected"
    ELSE IF UnderReplicatedSet # {} THEN "broker has under-replicated partitions"
    ELSE IF DirError \/ FuturePlacement THEN "log directories unhealthy"
    ELSE ""

\* C3: when several readiness conditions fail in the same snapshot, the
\* verdict of CheckReadiness carries exactly one message, that of the
\* lowest-numbered failing check; messages are never aggregated.
C3_FirstFailureWins ==
    \A e \in Slots :
        LET ev == evals[e]
        IN  (ev.op = "CheckReadiness" /\ ev.pc = "done" /\ AllCallsOK(ev)) =>
              ev.result.Message = FirstFailure

\* all four conditions fail at once and the verdict names the registration
C3_Witness ==
    \E e \in Slots :
        /\ evals[e].op = "CheckReadiness" /\ evals[e].pc = "done"
        /\ AllCallsOK(evals[e])
        /\ ~Registered /\ ~HasController /\ UnderReplicatedSet # {}
        /\ DirError /\ FuturePlacement
        /\ evals[e].result.Message = "broker not registered in cluster metadata"

\* C4: a liveness evaluation (CheckLiveness and LivenessHandler) runs only the
\* registration check: once the factory succeeded it calls Metadata exactly
\* once and never DescribeBrokerLogDirs, and when that call succeeds the
\* verdict is healthy iff the broker is in the snapshot's broker set, whatever
\* the controller, the ISR lists and the log directories are; absence gives
\* the message "broker not found in cluster metadata".
C4_LivenessOnlyRegistration ==
    \A e \in Slots :
        LET ev == evals[e]
            calls == ClientCalls(ev)
        IN  IsLiveness(ev) =>
              /\ \A i \in DOMAIN calls : calls[i].call = "Metadata"
              /\ Len(calls) <= 1
              /\ (ev.pc = "done" /\ FactoryOK(ev)) => Len(calls) = 1
              /\ (ev.pc = "done" /\ AllCallsOK(ev)) =>
                   /\ VerdictHealthy(ev) <=> Registered
                   /\ VerdictMessage(ev) =
                        IF Registered THEN ""
                        ELSE "broker not found in cluster metadata"

\* a healthy liveness verdict while every readiness-only condition fails
C4_Witness ==
    \E e \in Slots :
        /\ IsLiveness(evals[e]) /\ evals[e].pc = "done"
        /\ VerdictHealthy(evals[e])
        /\ ~HasController /\ UnderReplicatedSet # {} /\ DirError /\ FuturePlacement

\* what the snapshot and the calls of a handler's evaluation amount to
EvaluationHealthy(ev) ==
    /\ AllCallsOK(ev)
    /\ Registered
    /\ IsReadiness(ev) =>
         /\ HasController /\ UnderReplicatedSet = {}
         /\ ~DirError /\ ~FuturePlacement

\* C5: every /health/live and /health/ready request is answered 200 iff the
\* evaluation is healthy and 503 otherwise (structural failure, call error or
\* client-creation error alike); status is "healthy" exactly for 200 and
\* "unhealthy" exactly for 503, brokerId is the configured broker ID, and the
\* error field is present exactly in the 503 responses.
C5_StatusCode ==
    \A e \in Slots :
        LET ev == evals[e]
        IN  (IsHandler(ev) /\ ev.pc = "done") =>
              /\ ev.code \in {StatusOK, StatusServiceUnavailable}
              /\ ev.code = StatusOK <=> EvaluationHealthy(ev)
              /\ ev.resp.Status = "healthy" <=> ev.code = StatusOK
              /\ ev.resp.Status = "unhealthy" <=> ev.code = StatusServiceUnavailable
              /\ ev.resp.BrokerID = brokerID
              /\ ErrorFieldPresent(ev.resp) <=> ev.code = StatusServiceUnavailable

\* /health/ready answered 503 because DescribeBrokerLogDirs failed
C5_Witness ==
    \E e \in Slots :
        LET ev == evals[e]
        IN  /\ ev.op = "ReadinessHandler" /\ ev.pc = "done"
            /\ Len(ClientCalls(ev)) = 4
            /\ ClientCalls(ev)[4].err = "connection refused"
            /\ ev.code = StatusServiceUnavailable
            /\ ev.resp.Status = "unhealthy"

\* the message the evaluation reports for a failed call
ErrorText(entry) ==
    CASE entry.call = "clientFactory" -> entry.err
      [] entry.call = "Metadata" -> "failed to fetch metadata: " \o entry.err
      [] entry.call = "DescribeBrokerLogDirs" ->
            "failed to describe log dirs: " \o entry.err
      [] OTHER -> ""

\* C6: when the client factory or a client call returns an error, at any
\* stage of a liveness or readiness evaluation, the evaluation ends there: no
\* further client call is made, the verdict is unhealthy and the message is
\* the factory error verbatim, or "failed to fetch metadata: " or
\* "failed to describe log dirs: " followed by the error's text.
C6_ErrorAborts ==
    \A e \in Slots :
        LET ev == evals[e]
        IN  \A i \in DOMAIN ev.log :
              ev.log[i].err # NilErr =>
                /\ ev.pc = "done"
                /\ \A j \in DOMAIN ev.log : j > i => ev.log[j].call = "cleanup"
                /\ ~VerdictHealthy(ev)
                /\ VerdictMessage(ev) = ErrorText(ev.log[i])

\* the log-directory call of a readiness evaluation failed
C6_Witness ==
    \E e \in Slots :
        LET ev == evals[e]
        IN  /\ IsReadiness(ev) /\ ev.pc = "done"
            /\ Len(ClientCalls(ev)) = 4
            /\ ClientCalls(ev)[4].err = "context deadline exceeded"
            /\ VerdictMessage(ev) =
                 "failed to describe log dirs: context deadline exceeded"

\* C7: the client factory is called exactly once per liveness or readiness
\* evaluation, before any check, and every client call of the evaluation is
\* made on the client that call returned.
C7_OneClient ==
    \A e \in Slots :
        LET ev == evals[e]
        IN  ev.pc # "idle" =>
              /\ Len(FactoryCalls(ev)) = 1
              /\ ev.log[1].call = "clientFactory"
              /\ \A i \in DOMAIN ev.log :
                   ev.log[i].call \in {"Metadata", "DescribeBrokerLogDirs"} =>
                     /\ ev.log[i].client = ev.log[1].client
                     /\ ev.log[i].client \in DOMAIN clients

\* the four calls of the second evaluation all went to its own client
C7_Witness ==
    \E e \in Slots :
        LET ev == evals[e]
        IN  /\ IsReadiness(ev) /\ ev.pc = "done"
            /\ Len(ClientCalls(ev)) = 4
            /\ ev.log[1].client = 2
            /\ \A i \in 1..4 : ClientCalls(ev)[i].client = 2

\* C8: the cleanup handle the factory returned is invoked exactly once per
\* evaluation on every path it ends on (healthy verdict, structural failure
\* or call error at any check), not before the evaluation ends, and no client
\* call is made after it; no client is ever cleaned up twice.
C8_CleanupOnce ==
    /\ \A c \in DOMAIN clients : clients[c] <= 1
    /\ \A e \in Slots :
         LET ev == evals[e]
         IN  (ev.pc # "idle" /\ FactoryOK(ev)) =>
               IF ev.pc = "done"
               THEN /\ Cleanups(ev) = 1
                    /\ ev.log[Len(ev.log)] =
                         [call |-> "cleanup", client |-> ev.log[1].client,
                          err |-> NilErr]
                    /\ clients[ev.adm] = 1
               ELSE Cleanups(ev) = 0 /\ clients[ev.adm] = 0

\* a readiness request that failed at the controller check ran its cleanup
C8_Witness ==
    \E e \in Slots :
        LET ev == evals[e]
        IN  /\ ev.op = "ReadinessHandler" /\ ev.pc = "done"
            /\ Len(ClientCalls(ev)) = 2 /\ AllCallsOK(ev)
            /\ Cleanups(ev) = 1 /\ clients[ev.adm] = 1

\* C9: UnderReplicatedPartitions returns the number of (topic, partition)
\* pairs whose replica list contains the broker ID and whose ISR list does
\* not: it counts per partition and not per topic, never counts a partition
\* the broker is no replica of, and returns 0 for a snapshot with no topics.
C9_UnderReplicatedCount ==
    (out.fn = "UnderReplicatedPartitions" /\ out.callErr = NilErr) =>
        /\ out.res.err = NilErr
        /\ out.res.val = Cardinality(UnderReplicatedSet)
        /\ cluster.Metadata.Topics = <<>> => out.res.val = 0

\* one under-replicated partition in each of two topics gives 2
C9_Witness ==
    /\ out.fn = "UnderReplicatedPartitions" /\ out.callErr = NilErr
    /\ Len(cluster.Metadata.Topics) = 2
    /\ \A t \in 1..2 : Len(cluster.Metadata.Topics[t].Partitions) = 1
    /\ out.res.val = 2

\* C10: when DescribeBrokerLogDirs succeeds, LogDirsHealthy returns (true, no
\* error) iff no directory carries an error and no placement is flagged
\* future; a future placement or a directory error alone gives (false, no
\* error).
C10_LogDirsHealthy ==
    (out.fn = "LogDirsHealthy" /\ out.callErr = NilErr) =>
        /\ out.res.err = NilErr
        /\ out.res.val <=> (~DirError /\ ~FuturePlacement)

\* a directory error alone, in the second directory, with no future placement
C10_Witness ==
    /\ out.fn = "LogDirsHealthy" /\ out.callErr = NilErr
    /\ Len(cluster.LogDirs) = 2
    /\ cluster.LogDirs[1].Err = NilErr /\ cluster.LogDirs[2].Err # NilErr
    /\ ~FuturePlacement
    /\ out.res = [val |-> FALSE, err |-> NilErr]

----------------------------------------------------------------------------
\* C11: when the log-directory check is the one that fails structurally, the
\* reported cause is exactly "log directories unhealthy", in the verdict
\* message of CheckReadiness and in the error field of /health/ready alike.
C11_LogDirLiteral ==
    \A e \in Slots :
        LET ev == evals[e]
        IN  (/\ IsReadiness(ev) /\ ev.pc = "done" /\ AllCallsOK(ev)
             /\ Registered /\ HasController /\ UnderReplicatedSet = {}
             /\ (DirError \/ FuturePlacement)) =>
              VerdictMessage(ev) = "log directories unhealthy"

----------------------------------------------------------------------------
(* Several evaluations of the one Checker.                                 *)

Done(ev) == ev.pc = "done"

\* the errors the factory and the client returned to the evaluation, in order
Responses(ev) == [i \in DOMAIN ev.log |-> ev.log[i].err]

SameResponses(a, b) == a.op = b.op /\ Responses(a) = Responses(b)

\* the clients the evaluation called or closed
ClientsUsed(ev) ==
    {ev.log[i].client : i \in {j \in DOMAIN ev.log : ev.log[j].call # "clientFactory"}}

\* C12: evaluations are idempotent: two evaluations of the same kind that get
\* the same client responses end with the same healthy flag and the same
\* message, and no step of an evaluation changes the Checker's broker ID,
\* server list, timeout or factory.
C12_Idempotent ==
    [][/\ brokerID' = brokerID
       /\ checker' = checker
       /\ \A a, b \in DOMAIN evals' :
            (/\ Done(evals'[a]) /\ Done(evals'[b])
             /\ SameResponses(evals'[a], evals'[b])) =>
              /\ VerdictHealthy(evals'[a]) = VerdictHealthy(evals'[b])
              /\ VerdictMessage(evals'[a]) = VerdictMessage(evals'[b])]_vars

\* two finished /health/ready evaluations that went through all four checks
\* with the same responses, the Checker as it was constructed
C12_Witness ==
    /\ \A e \in Requests :
         /\ evals[e].op = "ReadinessHandler" /\ Done(evals[e])
         /\ Len(ClientCalls(evals[e])) = 4 /\ AllCallsOK(evals[e])
    /\ evals[1].resp = evals[2].resp /\ evals[1].code = evals[2].code
    /\ checker = NewChecker

\* C13: when requests are evaluated concurrently, each evaluation calls only
\* the client its own factory call returned, no two evaluations use the same
\* client, a client is closed once and only by the cleanup of its own
\* evaluation, and each evaluation ends with the verdict its own responses
\* and the snapshot give.
C13_Isolation ==
    /\ \A c \in DOMAIN clients : clients[c] <= 1
    /\ \A e \in DOMAIN evals :
        LET ev == evals[e]
        IN  /\ ClientsUsed(ev) \subseteq {ev.adm}
            /\ \A f \in DOMAIN evals \ {e} :
                 FactoryOK(ev) => ev.adm \notin ClientsUsed(evals[f])
            /\ (FactoryOK(ev) /\ ~Done(ev)) => clients[ev.adm] = 0
            /\ (FactoryOK(ev) /\ Done(ev)) => clients[ev.adm] = 1
            /\ Done(ev) => (VerdictHealthy(ev) <=> EvaluationHealthy(ev))

\* a readiness evaluation is still between its checks when a liveness
\* evaluation that began after it has finished and closed its client
C13_Witness ==
    \E e, f \in Requests :
        /\ evals[e].op = "CheckReadiness" /\ evals[e].pc = "check3"
        /\ evals[f].op = "LivenessHandler" /\ Done(evals[f])
        /\ FactoryOK(evals[f]) /\ evals[f].adm > evals[e].adm
        /\ clients[evals[f].adm] = 1 /\ clients[evals[e].adm] = 0

\* C15: on one unchanged snapshot, when a readiness evaluation ends healthy,
\* every liveness evaluation whose factory and client calls succeed ends
\* healthy too.
C15_ReadyImpliesLive ==
    \A r, l \in DOMAIN evals :
        (/\ IsReadiness(evals[r]) /\ Done(evals[r]) /\ VerdictHealthy(evals[r])
         /\ IsLiveness(evals[l]) /\ Done(evals[l]) /\ AllCallsOK(evals[l])) =>
          VerdictHealthy(evals[l])

\* /health/ready and CheckLiveness both answered healthy on the same snapshot
C15_Witness ==
    \E r, l \in Requests :
        /\ evals[r].op = "ReadinessHandler" /\ Done(evals[r])
        /\ evals[r].code = StatusOK
        /\ evals[l].op = "CheckLiveness" /\ Done(evals[l])
        /\ evals[l].result.Healthy

----------------------------------------------------------------------------
\* C14: every client call of an evaluation runs under a context derived from
\* the request's context with the configured check timeout, one per call; when
\* the request's context is canceled while the evaluation is at a call, that
\* call fails with the context's error, the evaluation ends unhealthy (503
\* from a handler) with that error, makes no later call, and still runs its
\* cleanup.
C14_Cancellation ==
    \A e \in DOMAIN evals :
        LET ev == evals[e]
            calls == ClientCalls(ev)
        IN  /\ CheckContext(ctx[e]) =
                 [parent |-> ctx[e], timeout |-> NewChecker.checkTimeout]
            /\ (ctx[e] = "canceled" /\ Done(ev)) =>
                 /\ calls # <<>>
                 /\ calls[Len(calls)].err = "context canceled"
                 /\ \A i \in 1..(Len(calls) - 1) : calls[i].err = NilErr
                 /\ ~VerdictHealthy(ev)
                 /\ IsHandler(ev) => ev.code = StatusServiceUnavailable
                 /\ VerdictMessage(ev) = ErrorText(calls[Len(calls)])
                 /\ Cleanups(ev) = 1
                 /\ ev.log[Len(ev.log)].call = "cleanup"
                 /\ ev.log[Len(ev.log) - 1] = calls[Len(calls)]

\* /health/ready was canceled at its third check: 503, no log-directory call,
\* the client closed
C14_Witness ==
    \E e \in Slots :
        LET ev == evals[e]
        IN  /\ ev.op = "ReadinessHandler" /\ Done(ev) /\ ctx[e] = "canceled"
            /\ Len(ClientCalls(ev)) = 3
            /\ ClientCalls(ev)[3].err = "context canceled"
            /\ ev.code = StatusServiceUnavailable
            /\ clients[ev.adm] = 1

----------------------------------------------------------------------------
(* What a name, a link or an address list is, read character by character  *)
(* and segment by segment rather than through the index arithmetic of      *)
(* discovery.go.                                                           *)

CharAt(s, i) == SubSeq(s, i, i)

SetMax(S) == CHOOSE x \in S : \A y \in S : y <= x

\* the pieces of s between the occurrences of the character sep
Split(s, sep) ==
    LET seps == {i \in 1..Len(s) : CharAt(s, i) = sep}
        cuts == {0} \cup seps \cup {Len(s) + 1}
        Cut(j) == CHOOSE p \in cuts : Cardinality({q \in cuts : q < p}) = j - 1
    IN  [j \in 1..(Cardinality(seps) + 1) |-> SubSeq(s, Cut(j) + 1, Cut(j + 1) - 1)]

HyphenPositions(h) == {i \in 1..Len(h) : CharAt(h, i) = "-"}

\* the text after the last hyphen of a name that has one
Suffix(h) == SubSeq(h, SetMax(HyphenPositions(h)) + 1, Len(h))

Unsigned(t) == IF t # "" /\ CharAt(t, 1) = "+" THEN SubSeq(t, 2, Len(t)) ELSE t

AllDigits(t) == t # "" /\ \A i \in 1..Len(t) : IsDigit(CharAt(t, i))

RECURSIVE StripZeros(_)
StripZeros(t) ==
    IF Len(t) > 1 /\ CharAt(t, 1) = "0" THEN StripZeros(SubSeq(t, 2, Len(t))) ELSE t

\* a <= b for two numerals of the same length
NumeralLE(a, b) ==
    \/ a = b
    \/ \E i \in 1..Len(a) :
         /\ SubSeq(a, 1, i - 1) = SubSeq(b, 1, i - 1)
         /\ DigitValue(CharAt(a, i)) < DigitValue(CharAt(b, i))

Fits32(t) ==
    LET z == StripZeros(t)
    IN  Len(z) < 10 \/ (Len(z) = 10 /\ NumeralLE(z, "2147483647"))

\* t is a base-10 integer that fits in 32 bits (a leading + is a sign)
IsInt32Text(t) == AllDigits(Unsigned(t)) /\ Fits32(Unsigned(t))

RECURSIVE NumeralValue(_)
NumeralValue(t) ==
    IF t = "" THEN 0
    ELSE DigitValue(CharAt(t, 1)) * 10 ^ (Len(t) - 1)
           + NumeralValue(SubSeq(t, 2, Len(t)))

Int32Value(t) == NumeralValue(StripZeros(Unsigned(t)))

WellFormedHost(h) ==
    /\ HyphenPositions(h) # {}
    /\ CharAt(h, Len(h)) # "-"
    /\ IsInt32Text(Suffix(h))

\* C16: ParseBrokerIDFromHostname applies the last-hyphen rule: it fails when
\* the name has no hyphen, when its last character is a hyphen, or when the
\* text after the last hyphen is not a base-10 integer that fits in 32 bits,
\* and otherwise returns that integer; "kafka-7" gives 7,
\* "my-kafka-cluster-2" gives 2 and the empty name fails.
C16_LastHyphenRule ==
    out.fn = "ParseBrokerIDFromHostname" =>
        LET h == out.hostname
            r == out.res
        IN  /\ IF WellFormedHost(h)
               THEN r.err = NilErr /\ r.val = Int32Value(Suffix(h))
               ELSE r.err # NilErr /\ r.val = 0
            /\ h = "kafka-7" => r = [val |-> 7, err |-> NilErr]
            /\ h = "my-kafka-cluster-2" => r = [val |-> 2, err |-> NilErr]
            /\ h = "" => r.err # NilErr

\* a name with several hyphens: the text after the last one is the ID
C16_Witness ==
    /\ out.fn = "ParseBrokerIDFromHostname"
    /\ out.hostname = "my-kafka-cluster-2"
    /\ out.res = [val |-> 2, err |-> NilErr]

\* C18: BuildBootstrapServers returns, for every replica count n, exactly
\* max(1, n) addresses separated by commas, with no separator before the
\* first or after the last, the i-th (from 0) being
\* replica-{i}.{workload}.{location}.{gvc}.cpln.local:{port}; a count <= 0
\* gives what count 1 gives.  (The function has no error result.)
C18_BootstrapList ==
    out.fn = "BuildBootstrapServers" =>
        LET n == IF out.replicaCount > 1 THEN out.replicaCount ELSE 1
            addresses == Split(out.res, ",")
        IN  /\ Len(addresses) = n
            /\ \A i \in 1..n :
                 addresses[i] = "replica-" \o ToString(i - 1) \o "."
                     \o out.workloadName \o "." \o out.location \o "."
                     \o out.gvcName \o ".cpln.local:" \o ToString(out.port)
            /\ CharAt(out.res, 1) # "," /\ CharAt(out.res, Len(out.res)) # ","
            /\ out.replicaCount <= 0 =>
                 out.res = BuildBootstrapServers(out.workloadName, out.location,
                                                 out.gvcName, 1, out.port)

\* a negative replica count gives the one address of replica 0
C18_Witness ==
    /\ out.fn = "BuildBootstrapServers"
    /\ out.replicaCount = -2
    /\ out.res = "replica-0.kafka.aws-eu-central-1.my-gvc.cpln.local:9092"

\* the segments of the link that are exactly "workload" with a "/" on both
\* sides: each is an occurrence of "/workload/"
WorkloadMarks(link) ==
    LET segs == Split(link, "/")
    IN  {i \in 2..(Len(segs) - 1) : segs[i] = "workload"}

\* nothing follows the last "/workload/": the link ends with it
NothingFollows(link) ==
    LET segs == Split(link, "/")
        i == SetMax(WorkloadMarks(link))
    IN  i + 1 = Len(segs) /\ segs[i + 1] = ""

\* the segment after the last "/workload/"
WorkloadSegment(link) == Split(link, "/")[SetMax(WorkloadMarks(link)) + 1]

\* C19: ParseWorkloadNameFromLink returns the path segment that follows
\* "/workload/" in the link (the last one, when the link has several), and
\* fails for every link that does not contain "/workload/" or that ends with
\* it, the empty link included.
C19_WorkloadSegment ==
    out.fn = "ParseWorkloadNameFromLink" =>
        LET r == out.res
        IN  /\ IF WorkloadMarks(out.link) = {} \/ NothingFollows(out.link)
               THEN r.err # NilErr /\ r.val = ""
               ELSE r.err = NilErr /\ r.val = WorkloadSegment(out.link)
            /\ out.link = "" => r.err # NilErr

\* the link of the platform: the workload name is its last segment
C19_Witness ==
    /\ out.fn = "ParseWorkloadNameFromLink"
    /\ out.link = "/org/gitops/gvc/igor-kafka/workload/kafka-fix-cluster"
    /\ out.res = [val |-> "kafka-fix-cluster", err |-> NilErr]

----------------------------------------------------------------------------
(* What the environment offers, read off the variables themselves.         *)

Initialized == config # NoConfig

Consulted == Range(config.trace)

HostnameUsable == env.HOSTNAME # "" /\ WellFormedHost(env.HOSTNAME)

\* the broker ID is resolved: given, or readable from the host name
BrokerIDAvailable == env.BROKER_ID # "" \/ HostnameUsable

\* C17: at startup an explicit BROKER_ID is the broker ID and HOSTNAME is not
\* consulted, so a missing or malformed HOSTNAME causes no failure; only
\* without BROKER_ID is the ID parsed from HOSTNAME, and Initialize then
\* fails when HOSTNAME is absent or malformed.
C17_BrokerIDResolution ==
    Initialized =>
        IF env.BROKER_ID # ""
        THEN /\ config.Config.BrokerID = Int32Value(env.BROKER_ID)
             /\ "DiscoverBrokerID" \notin Consulted
             /\ config.err # NilErr =>
                  /\ config.trace # <<>>
                  /\ config.trace[Len(config.trace)] \in
                       {"DiscoverWorkloadName", "DiscoverLocation", "DiscoverGvcName"}
        ELSE /\ config.trace # <<>> /\ config.trace[1] = "DiscoverBrokerID"
             /\ IF HostnameUsable
                THEN /\ config.Config.BrokerID = Int32Value(Suffix(env.HOSTNAME))
                     /\ config.err # NilErr => Len(config.trace) > 1
                ELSE /\ config.err # NilErr
                     /\ config.trace = <<"DiscoverBrokerID">>

\* BROKER_ID=10 with a host name that has no hyphen: the ID is 10, no failure
C17_Witness ==
    /\ Initialized
    /\ env.BROKER_ID = "10" /\ env.HOSTNAME = "kafka"
    /\ env.BOOTSTRAP_SERVERS # ""
    /\ config.err = NilErr /\ config.Config.BrokerID = 10

\* what each of the three names is taken from: [ok, val]
Unavailable == [ok |-> FALSE, val |-> ""]

WorkloadOffered ==
    IF env.WORKLOAD_NAME # "" THEN [ok |-> TRUE, val |-> env.WORKLOAD_NAME]
    ELSE IF /\ env.CPLN_WORKLOAD # ""
            /\ WorkloadMarks(env.CPLN_WORKLOAD) # {}
            /\ ~NothingFollows(env.CPLN_WORKLOAD)
    THEN [ok |-> TRUE, val |-> WorkloadSegment(env.CPLN_WORKLOAD)]
    ELSE Unavailable

LocationOffered ==
    IF env.LOCATION # "" THEN [ok |-> TRUE, val |-> env.LOCATION]
    ELSE IF env.CPLN_LOCATION # ""
    THEN [ok |-> TRUE,
          val |-> LET segs == Split(env.CPLN_LOCATION, "/") IN segs[Len(segs)]]
    ELSE Unavailable

GvcOffered ==
    IF env.GVC_NAME # "" THEN [ok |-> TRUE, val |-> env.GVC_NAME]
    ELSE IF env.CPLN_GVC # "" THEN [ok |-> TRUE, val |-> env.CPLN_GVC]
    ELSE Unavailable

BootstrapSources ==
    {"Config.WorkloadName", "DiscoverWorkloadName", "Config.Location",
     "DiscoverLocation", "Config.GvcName", "DiscoverGvcName",
     "BuildBootstrapServers"}

\* the consulted sources, without the broker ID's
BootstrapTrace == SelectSeq(config.trace, LAMBDA x : x \in BootstrapSources)

\* C20: when BOOTSTRAP_SERVERS is set, Initialize keeps it and consults none
\* of the workload, location and GVC overrides and discovery sources, so it
\* succeeds with all of them absent; when it is not set, each of the three
\* is its non-empty override, else its discovery source, and Initialize fails
\* at the first that is unavailable, consulting nothing after it and
\* building no address list.
C20_BootstrapResolution ==
    (Initialized /\ BrokerIDAvailable) =>
        IF env.BOOTSTRAP_SERVERS # ""
        THEN /\ config.err = NilErr
             /\ config.Config.BootstrapServers = env.BOOTSTRAP_SERVERS
             /\ BootstrapTrace = <<>>
        ELSE LET w == WorkloadOffered
                 l == LocationOffered
                 g == GvcOffered
                 wt == IF env.WORKLOAD_NAME # "" THEN <<"Config.WorkloadName">>
                       ELSE <<"Config.WorkloadName", "DiscoverWorkloadName">>
                 lt == IF env.LOCATION # "" THEN <<"Config.Location">>
                       ELSE <<"Config.Location", "DiscoverLocation">>
                 gt == IF env.GVC_NAME # "" THEN <<"Config.GvcName">>
                       ELSE <<"Config.GvcName", "DiscoverGvcName">>
                 failed == /\ config.err # NilErr
                           /\ config.Config.BootstrapServers = ""
             IN  IF ~w.ok THEN failed /\ BootstrapTrace = wt
                 ELSE IF ~l.ok THEN failed /\ BootstrapTrace = wt \o lt
                 ELSE IF ~g.ok THEN failed /\ BootstrapTrace = wt \o lt \o gt
                 ELSE /\ config.err = NilErr
                      /\ BootstrapTrace =
                           wt \o lt \o gt \o <<"BuildBootstrapServers">>
                      /\ config.Config.BootstrapServers =
                           BuildBootstrapServers(w.val, l.val, g.val,
                               config.Config.ReplicaCount, config.Config.KafkaPort)

\* the workload comes from its override, the location is nowhere: Initialize
\* fails there, before the GVC is looked at and without an address list
C20_Witness ==
    /\ Initialized /\ BrokerIDAvailable
    /\ env.BOOTSTRAP_SERVERS = "" /\ env.WORKLOAD_NAME = "my-kafka"
    /\ env.CPLN_WORKLOAD = "/org/o/gvc/g"
    /\ env.LOCATION = "" /\ env.CPLN_LOCATION = ""
    /\ env.GVC_NAME = "my-gvc"
    /\ config.err = "CPLN_LOCATION environment variable not set"
    /\ config.Config.BootstrapServers = ""
    /\ "Config.GvcName" \notin Consulted

----------------------------------------------------------------------------
MechanismNames == {"PLAIN", "SCRAM-SHA-256", "SCRAM-SHA-512"}

\* a and b are the same letter in either case, or the same character
SameLetter(a, b) ==
    \/ a = b
    \/ \E i \in 1..Len(LowerLetters) :
         {a, b} = {SubSeq(LowerLetters, i, i), SubSeq(UpperLetters, i, i)}

\* a and b are equal when case is ignored
EqualFold(a, b) ==
    /\ Len(a) = Len(b)
    /\ \A i \in 1..Len(a) : SameLetter(SubSeq(a, i, i), SubSeq(b, i, i))

Supported(mechanism) == \E name \in MechanismNames : EqualFold(mechanism, name)

UnsupportedMechanismError(err) ==
    /\ Len(err) >= Len("failed to configure SASL: unsupported SASL mechanism")
    /\ SubSeq(err, 1, Len("failed to configure SASL: unsupported SASL mechanism"))
         = "failed to configure SASL: unsupported SASL mechanism"

\* C21: with SASL enabled, the client construction of an evaluation fails
\* with an unsupported-mechanism error exactly when the configured mechanism,
\* compared without regard to case, is none of PLAIN, SCRAM-SHA-256 and
\* SCRAM-SHA-512 (the empty mechanism included); the failure gives the
\* evaluation no client and no cleanup, and the evaluation ends unhealthy
\* with that error.
C21_UnsupportedMechanism ==
    \A e \in DOMAIN evals :
        LET ev == evals[e]
            failed == UnsupportedMechanismError(ev.log[1].err)
        IN  ev.pc # "idle" =>
              /\ checker.saslConfig.Enabled =>
                   (failed <=> ~Supported(checker.saslConfig.Mechanism))
              /\ ~checker.saslConfig.Enabled => ~failed
              /\ failed =>
                   /\ ev.adm = 0 /\ clients = <<>>
                   /\ Len(ev.log) = 1 /\ Cleanups(ev) = 0
                   /\ Done(ev) /\ ~VerdictHealthy(ev)
                   /\ VerdictMessage(ev) = ev.log[1].err
                   /\ IsHandler(ev) => ev.code = StatusServiceUnavailable

\* /health/ready asked for a client of a Checker configured with GSSAPI
C21_Witness ==
    \E e \in Slots :
        /\ evals[e].op = "ReadinessHandler" /\ Done(evals[e])
        /\ checker.saslConfig = [Enabled |-> TRUE, Mechanism |-> "GSSAPI"]
        /\ evals[e].code = StatusServiceUnavailable
        /\ evals[e].resp.ErrorMessage =
             "failed to configure SASL: unsupported SASL mechanism: GSSAPI (supported: PLAIN, SCRAM-SHA-256, SCRAM-SHA-512)"

----------------------------------------------------------------------------
(* The memory metrics, stated on the limbs without the reader's arithmetic. *)

\* a + b, carried limb by limb
Plus(a, b) ==
    LET low == a[3] + b[3]
        mid == a[2] + b[2] + (low \div LimbBase)
    IN  <<a[1] + b[1] + (mid \div LimbBase), mid % LimbBase, low % LimbBase>>

\* a <= b, read from the most significant limb that differs
AtMost(a, b) ==
    LET differ == {i \in 1..3 : a[i] # b[i]}
    IN  differ = {} \/ LET first == CHOOSE i \in differ : \A j \in differ : i <= j
                       IN  a[first] < b[first]

\* a reader was called and returned metrics
MetricsRead ==
    /\ out # NoOut
    /\ out.fn = "ReadMemoryMetrics"
    /\ out.res.err = NilErr

\* C22: in the metrics of both readers the working set is the usage less the
\* inactive file bytes when the usage is at least the inactive file bytes, and
\* zero otherwise; it never wraps around and never exceeds the usage.
C22_WorkingSet ==
    MetricsRead =>
        LET m == out.res.metrics
        IN  /\ AtMost(m.InactiveFile, m.Usage)
                => Plus(m.WorkingSet, m.InactiveFile) = m.Usage
            /\ ~AtMost(m.InactiveFile, m.Usage) => m.WorkingSet = Zero
            /\ AtMost(m.WorkingSet, m.Usage)

\* usage 50 under 100 inactive file bytes, read as a working set of zero
C22_Witness ==
    /\ MetricsRead
    /\ out.res.metrics.Usage = <<0, 0, 50>>
    /\ out.res.metrics.InactiveFile = <<0, 0, 100>>
    /\ out.res.metrics.WorkingSet = Zero

\* the text starts with the prefix
HasPrefix(text, prefix) ==
    Len(text) >= Len(prefix) /\ SubSeq(text, 1, Len(prefix)) = prefix

\* the limit file holds the token "max"
LimitIsMax ==
    /\ out # NoOut
    /\ out.fn = "ReadMemoryMetrics"
    /\ out.files.limit.exists
    /\ out.files.limit.data \in {"max", "max\n"}

\* the read failed on the limit file
LimitFailed ==
    \E prefix \in {"failed to read memory limit: ", "failed to read memory.max: "} :
        HasPrefix(out.res.err, prefix)

\* the ratio is the number zero
IsZeroRatio(r) == r.num = Zero /\ r.den # Zero

\* C23: a limit file holding "max" is read as limit 0 and never fails the
\* read; with limit 0 oomRatio and oomFloorRatio are both 0; with a positive
\* limit oomRatio is workingSet / limit and oomFloorRatio is rss / limit.
C23_LimitAndRatios ==
    /\ LimitIsMax => ~LimitFailed
    /\ MetricsRead =>
        LET m == out.res.metrics
        IN  /\ LimitIsMax => m.Limit = Zero
            /\ m.Limit = Zero
                => IsZeroRatio(m.OOMRatio) /\ IsZeroRatio(m.OOMFloorRatio)
            /\ m.Limit # Zero
                => /\ m.OOMRatio = [num |-> m.WorkingSet, den |-> m.Limit]
                   /\ m.OOMFloorRatio = [num |-> m.RSS, den |-> m.Limit]

\* a limit of "max" read next to a resident set and a working set that are
\* not zero
C23_Witness ==
    /\ MetricsRead
    /\ LimitIsMax
    /\ out.res.metrics.Limit = Zero
    /\ out.res.metrics.RSS # Zero
    /\ out.res.metrics.WorkingSet # Zero
    /\ IsZeroRatio(out.res.metrics.OOMRatio)

\* a reader was called
ReaderCalled == out # NoOut /\ out.fn = "ReadMemoryMetrics"

\* the value a file holds, without the white space around it
Held(file) == TrimSpace(file.data)

\* t is a base-10 integer, with or without a sign
IsIntegerText(t) ==
    AllDigits(IF t # "" /\ CharAt(t, 1) \in {"+", "-"} THEN SubSeq(t, 2, Len(t)) ELSE t)

\* t is a base-10 integer without a sign that fits in 64 bits
IsUint64Text(t) ==
    /\ AllDigits(t)
    /\ LET z == StripZeros(t)
       IN  Len(z) < 20 \/ (Len(z) = 20 /\ NumeralLE(z, "18446744073709551615"))

\* the words of a line: what stands between its blanks
Words(line) ==
    LET pieces == Split(line, " ")
    IN  {i \in DOMAIN pieces : pieces[i] # ""}

\* the line is exactly a name followed by an integer value, and the name is key
Supplies(line, key) ==
    LET pieces == Split(line, " ")
        at == Words(line)
    IN  /\ Cardinality(at) = 2
        /\ pieces[CHOOSE i \in at : \A j \in at : i <= j] = key
        /\ IsUint64Text(pieces[CHOOSE i \in at : \A j \in at : j <= i])

\* some line of the stat file supplies the key
Supplied(key) ==
    \E i \in DOMAIN out.files.stat.lines : Supplies(out.files.stat.lines[i], key)

\* the key of the resident set in the format read
RSSKey == IF out.files.version = CgroupV1 THEN "rss" ELSE "anon"

\* C24: the read fails and returns no metrics when the usage, limit or stat
\* file is missing or the usage or limit value is not an integer (the limit may
\* be "max"); no line of the stat file fails the read, whatever it holds; and
\* the resident set and the inactive file bytes are 0 when no line that is
\* exactly a name and an integer supplies them.
C24_ReadFailures ==
    ReaderCalled =>
        LET f == out.files
        IN  /\ (\/ ~f.usage.exists
                \/ ~f.limit.exists
                \/ ~f.stat.exists
                \/ ~IsIntegerText(Held(f.usage))
                \/ ~IsIntegerText(Held(f.limit)) /\ Held(f.limit) # "max")
                => out.res.err # NilErr /\ out.res.metrics = NilMetrics
            /\ (/\ f.usage.exists /\ IsUint64Text(Held(f.usage))
                /\ f.limit.exists
                /\ IsUint64Text(Held(f.limit)) \/ Held(f.limit) = "max"
                /\ f.stat.exists /\ ~f.stat.tooLong)
                => out.res.err = NilErr
            /\ MetricsRead =>
                /\ ~Supplied(RSSKey) => out.res.metrics.RSS = Zero
                /\ ~Supplied("inactive_file") => out.res.metrics.InactiveFile = Zero

\* what holds of the failures once a usage file holding "max" is set aside:
\* every other missing file or value that is no integer fails the read
FailsExceptUsageMax ==
    ReaderCalled =>
        LET f == out.files
        IN  (\/ ~f.usage.exists
             \/ ~f.limit.exists
             \/ ~f.stat.exists
             \/ ~IsIntegerText(Held(f.usage)) /\ Held(f.usage) # "max"
             \/ ~IsIntegerText(Held(f.limit)) /\ Held(f.limit) # "max")
            => out.res.err # NilErr /\ out.res.metrics = NilMetrics

----------------------------------------------------------------------------
(* The scrapes of the collector. *)

GaugeNames ==
    {"kafka_memory_usage_bytes", "kafka_memory_limit_bytes",
     "kafka_memory_rss_bytes", "kafka_memory_inactive_file_bytes",
     "kafka_memory_working_set_bytes", "kafka_memory_non_reclaimable_bytes",
     "kafka_memory_oom_ratio", "kafka_memory_oom_floor_ratio"}

\* the value sent for a gauge in a scrape that sent it once
Gauge(sent, name) == sent[CHOOSE k \in DOMAIN sent : sent[k].desc = name].value

\* the read of the files a scrape found succeeds
ReadSucceeds(files) == CgroupReader_ReadMemoryMetrics(files).err = NilErr

\* C25: every scrape sends all eight gauges or none: each of the eight once
\* when the read of the files it found succeeds (also when every value is
\* zero), with non_reclaimable_bytes equal to rss_bytes, and nothing when the
\* read fails; this holds of every scrape whatever the scrapes before it found,
\* so a failed read neither ends the scrape nor touches a later one.
C25_AllOrNone ==
    \A i \in DOMAIN scrapes :
        LET sent == scrapes[i].sent
        IN  /\ Len(sent) \in {0, 8}
            /\ ReadSucceeds(scrapes[i].files)
                => /\ Len(sent) = 8
                   /\ {sent[k].desc : k \in DOMAIN sent} = GaugeNames
                   /\ Gauge(sent, "kafka_memory_non_reclaimable_bytes")
                        = Gauge(sent, "kafka_memory_rss_bytes")
            /\ ~ReadSucceeds(scrapes[i].files) => sent = <<>>

\* a scrape that sent nothing, followed by one that sent the eight gauges
C25_Witness ==
    /\ Len(scrapes) = 2
    /\ ~ReadSucceeds(scrapes[1].files)
    /\ scrapes[1].sent = <<>>
    /\ ReadSucceeds(scrapes[2].files)
    /\ Len(scrapes[2].sent) = 8
    /\ Gauge(scrapes[2].sent, "kafka_memory_rss_bytes").num # Zero

----------------------------------------------------------------------------
(* The shutdown of the server. *)

\* Start has left its select for the shutdown, or has returned
ShutdownBegun == server.phase \in {"shutdown", "returned", "exited"}

\* once the shutdown has begun nothing listens
NoListener == ShutdownBegun => server.listener # "open"

\* the shutdown never waits past the grace period
GraceBounded == server.phase = "shutdown" => server.elapsed <= 10

\* the end of the process leaves no connection behind
NothingLeft == server.phase = "exited" => server.inflight = 0

\* no request starts once the shutdown has begun, and the shutdown returns
\* either with no request left or at the end of the grace period
ShutdownStep ==
    /\ ShutdownBegun => server'.inflight <= server.inflight
    /\ (server.phase = "shutdown" /\ server'.phase = "returned") =>
        \/ server.inflight = 0 /\ server'.err = NilErr
        \/ server.elapsed = 10 /\ server'.err = ErrDeadlineExceeded

----------------------------------------------------------------------------
(* A readiness probe against a cluster that changes. *)

\* the three facts of the probe, all in the one metadata state md
ReadyIn(md) ==
    /\ brokerID \in Range(md.Brokers)
    /\ md.Controller >= 0
    /\ \A t \in DOMAIN md.Topics : \A p \in DOMAIN md.Topics[t].Partitions :
         brokerID \in Range(md.Topics[t].Partitions[p].Replicas)
            => brokerID \in Range(md.Topics[t].Partitions[p].ISR)

\* C27: a readiness probe that ends healthy implies that among the metadata
\* states the cluster has been in there is one in which the broker is
\* registered, a controller is elected and no partition of the broker is
\* under-replicated, all three at once.
C27_PointInTime ==
    \A e \in DOMAIN evals :
        (Done(evals[e]) /\ IsReadiness(evals[e]) /\ VerdictHealthy(evals[e]))
            => \E md \in history : ReadyIn(md)

----------------------------------------------------------------------------
(* The handlers against the Check functions. *)

\* the handler and the Check function of the same probe
Counterparts(h, c) ==
    \/ h.op = "ReadinessHandler" /\ c.op = "CheckReadiness"
    \/ h.op = "LivenessHandler" /\ c.op = "CheckLiveness"

\* the factory and the client answered the two evaluations alike, as far as
\* both asked
AnsweredAlike(h, c) ==
    \A i \in DOMAIN h.log \cap DOMAIN c.log : h.log[i].err = c.log[i].err

\* the calls of an evaluation, in order, by their names
CallNames(ev) == [i \in DOMAIN ev.log |-> ev.log[i].call]

\* C28: a handler and the Check function of the same probe that get the same
\* answers from the factory and from the client, against the same cluster,
\* make the same calls in the same order, and the handler answers 200 exactly
\* when the Check function returns Healthy = true.
C28_HandlerMatchesCheck ==
    \A a, b \in DOMAIN evals :
        (/\ Done(evals[a]) /\ Done(evals[b])
         /\ Counterparts(evals[a], evals[b])
         /\ AnsweredAlike(evals[a], evals[b]))
            => /\ CallNames(evals[a]) = CallNames(evals[b])
               /\ (evals[a].code = StatusOK) <=> evals[b].result.Healthy

\* /health/ready and CheckReadiness both ran their four checks on answers
\* without error and both found the log directories unhealthy
C28_Witness ==
    \E a, b \in DOMAIN evals :
        /\ Done(evals[a]) /\ Done(evals[b])
        /\ evals[a].op = "ReadinessHandler" /\ evals[b].op = "CheckReadiness"
        /\ AnsweredAlike(evals[a], evals[b])
        /\ Len(ClientCalls(evals[a])) = 4
        /\ AllCallsOK(evals[a])
        /\ evals[a].code = StatusServiceUnavailable
        /\ ~evals[b].result.Healthy

----------------------------------------------------------------------------
(* The fields of the /health/ready response. *)

\* the k-th check of the evaluation ran and its client call returned no error
RanClean(ev, k) == Len(ClientCalls(ev)) >= k /\ ClientCalls(ev)[k].err = NilErr

\* C29: in every /health/ready response brokerRegistered, controllerElected,
\* underReplicatedPartitions and logDirsHealthy each hold what their check
\* finds in the cluster if that check ran without error, and false / 0
\* otherwise; underReplicatedPartitions is never negative; status is "healthy"
\* iff brokerRegistered, controllerElected, underReplicatedPartitions = 0 and
\* logDirsHealthy.
C29_ResponseFields ==
    \A e \in DOMAIN evals :
        LET ev == evals[e]
            resp == ev.resp
        IN  (Done(ev) /\ ev.op = "ReadinessHandler") =>
              /\ resp.BrokerRegistered <=> (RanClean(ev, 1) /\ Registered)
              /\ resp.ControllerElected <=> (RanClean(ev, 2) /\ HasController)
              /\ resp.UnderReplicatedPartitions =
                    IF RanClean(ev, 3) THEN Cardinality(UnderReplicatedSet) ELSE 0
              /\ resp.LogDirsHealthy
                    <=> (RanClean(ev, 4) /\ ~DirError /\ ~FuturePlacement)
              /\ resp.UnderReplicatedPartitions >= 0
              /\ resp.Status \in {"healthy", "unhealthy"}
              /\ resp.Status = "healthy"
                    <=> /\ resp.BrokerRegistered
                        /\ resp.ControllerElected
                        /\ resp.UnderReplicatedPartitions = 0
                        /\ resp.LogDirsHealthy

\* the third check failed on its client call: the count stays 0 although the
\* broker has an under-replicated partition, and the two checks before it
\* keep their results
C29_Witness ==
    \E e \in DOMAIN evals :
        /\ Done(evals[e]) /\ evals[e].op = "ReadinessHandler"
        /\ Len(ClientCalls(evals[e])) = 3
        /\ ClientCalls(evals[e])[3].err # NilErr
        /\ UnderReplicatedSet # {}
        /\ evals[e].resp.BrokerRegistered /\ evals[e].resp.ControllerElected
        /\ evals[e].resp.UnderReplicatedPartitions = 0
        /\ evals[e].resp.Status = "unhealthy"

----------------------------------------------------------------------------
(* The names resolved from the platform's identifiers. *)

\* C30: whenever ParseWorkloadNameFromLink or DiscoverLocation returns without
\* an error, the value it returns is not empty and holds no "/".
C30_NonEmptySegment ==
    (/\ out # NoOut
     /\ out.fn \in {"ParseWorkloadNameFromLink", "DiscoverLocation"}
     /\ out.res.err = NilErr)
        => /\ out.res.val # ""
           /\ \A i \in 1..Len(out.res.val) : CharAt(out.res.val, i) # "/"

====
